---- MODULE Spec2Model ----
(***************************************************************************)
(* A model of sui-gas-station: the CoinPool (src/src/coin-pool.ts) and the *)
(* GasSponsor facade (gas-sponsor.ts, second half of src/src/types.ts).    *)
(*                                                                         *)
(* The pool's Map<string, CoinEntry> is a sequence of entries in insertion *)
(* order (the order a JavaScript Map iterates in).  Amounts are in scaled  *)
(* units, time in scaled ticks of Date.now().                              *)
(***************************************************************************)
EXTENDS Integers, Sequences, FiniteSets, TLC

VARIABLES
    coins,        \* CoinPool.coins: sequence of CoinEntry, insertion order
    now,          \* the wall clock read by Date.now()
    reval,        \* revalidatePool calls suspended in multiGetObjects
    last,         \* the latest operation that changed the pool, and its outcome
    outstanding,  \* history: per objectId, reservations handed out by reserve
                  \* and not yet released, reported or swept
    initialized,  \* GasSponsor.initialized
    tasks,        \* the sponsorTransaction calls in progress, per caller
    gasPriceCache,        \* GasSponsor.gasPriceCache
    needsRevalidation,    \* GasSponsor.needsRevalidation
    epochBoundaryWindow,  \* GasSponsor.epochBoundaryWindow, fixed at construction
    calls,        \* the initialize, replenish, close and getGasPrice calls
                  \* in progress
    minted,       \* objectIds the sponsor's split transactions have created
    onPoolDepleted        \* GasSponsor.onPoolDepleted, fixed at construction

\* the state of the GasSponsor that the pool operations and the steps of
\* sponsorTransaction leave alone
\* the options the constructor fixes
fixed == <<epochBoundaryWindow, onPoolDepleted>>

admin ==
    <<gasPriceCache, needsRevalidation, epochBoundaryWindow, calls, minted,
      onPoolDepleted>>

vars == <<coins, now, reval, last, outstanding, initialized, tasks, admin>>

(***************************************************************************)
(* Bounds of the model.                                                    *)
(***************************************************************************)
MaxTime == 2          \* the clock runs 0..MaxTime
MaxBalance == 3       \* balances the network reports run 0..MaxBalance
MaxPending == 1       \* revalidatePool calls suspended at the same time

(***************************************************************************)
(* Construction parameters of the pool (scaled).                           *)
(***************************************************************************)
targetPoolSize == 2
targetCoinBalance == 2
minCoinBalance == 2
reservationTimeoutMs == 1
defaultMaxBudget == targetCoinBalance     \* GasSponsor.defaultMaxBudget
defaultPolicy == <<>>                     \* GasSponsorOptions.policy: none

Ids == {"A", "B"}                 \* objectIds of the sponsor's pool coins
Tasks == {"t1"}                   \* concurrent callers of sponsorTransaction
Times == 0 .. MaxTime
Balances == 0 .. MaxBalance
Versions == {1, 2}                \* a coin's version at listing, and after use
NewVersion == CHOOSE v \in Versions : \A w \in Versions : w <= v

\* Optional values (undefined, null) are sequences of length 0 or 1.
Missing == <<>>                   \* a value that is absent (undefined / null)
Some(v) == <<v>>                  \* a value that is present
Val(o) == o[1]
NoTime == Missing                 \* reservedAt: null
At(t) == Some(t)                  \* reservedAt: a timestamp

(***************************************************************************)
(* Map helpers: the Map is a sequence without repeated keys.               *)
(***************************************************************************)
RECURSIVE IndexFrom(_, _, _)
IndexFrom(m, id, i) ==
    IF i > Len(m) THEN 0
    ELSE IF m[i].objectId = id THEN i
    ELSE IndexFrom(m, id, i + 1)

\* Map.get / Map.has: the position of the key, 0 when absent
MapIndex(m, id) == IndexFrom(m, id, 1)
MapHas(m, id) == MapIndex(m, id) # 0
MapGet(m, id) == m[MapIndex(m, id)]

\* Map.delete
MapDelete(m, id) == SelectSeq(m, LAMBDA e : e.objectId # id)

\* [...Map.keys()]
RECURSIVE MapKeys(_)
MapKeys(m) == IF m = <<>> THEN <<>> ELSE <<Head(m).objectId>> \o MapKeys(Tail(m))

KeySet(m) == {m[i].objectId : i \in 1 .. Len(m)}

(***************************************************************************)
(* CoinPool.recycleExpired(now): the loop over the Map, deleting in place. *)
(***************************************************************************)
\* (mutant) the timeout compared with >= instead of >
IsExpiredInclusive(coin, t) ==
    /\ coin.status = "reserved"
    /\ coin.reservedAt # NoTime
    /\ t - coin.reservedAt[1] >= reservationTimeoutMs

IsExpired(coin, t) ==
    /\ coin.status = "reserved"
    /\ coin.reservedAt # NoTime
    /\ t - coin.reservedAt[1] > reservationTimeoutMs

\* (mutant) an expired reservation is released instead of deleted
RECURSIVE recycleLoopReleasing(_, _, _, _)
recycleLoopReleasing(m, t, kept, expired) ==
    IF m = <<>> THEN [coins |-> kept, expired |-> expired]
    ELSE IF IsExpired(Head(m), t)
         THEN recycleLoopReleasing(Tail(m), t,
                  Append(kept, [Head(m) EXCEPT !.status = "available",
                                               !.reservedAt = NoTime]),
                  Append(expired, Head(m).objectId))
         ELSE recycleLoopReleasing(Tail(m), t, Append(kept, Head(m)), expired)

RECURSIVE recycleLoop(_, _, _, _)
recycleLoop(m, t, kept, expired) ==
    IF m = <<>> THEN [coins |-> kept, expired |-> expired]
    ELSE IF IsExpired(Head(m), t)
         THEN recycleLoop(Tail(m), t, kept, Append(expired, Head(m).objectId))
         ELSE recycleLoop(Tail(m), t, Append(kept, Head(m)), expired)

recycleExpired(m, t) == recycleLoop(m, t, <<>>, <<>>)

(***************************************************************************)
(* CoinPool.reserve(minBalance?)                                           *)
(***************************************************************************)
\* (mutant) the scan takes any entry with enough balance, whatever its status
RECURSIVE FirstAnyStatus(_, _, _)
FirstAnyStatus(m, required, i) ==
    IF i > Len(m) THEN 0
    ELSE IF m[i].balance >= required THEN i
    ELSE FirstAnyStatus(m, required, i + 1)

RECURSIVE FirstAvailable(_, _, _)
FirstAvailable(m, required, i) ==
    IF i > Len(m) THEN 0
    ELSE IF m[i].status = "available" /\ m[i].balance >= required THEN i
    ELSE FirstAvailable(m, required, i + 1)

\* (mutant) the reserved copy is stored as a new entry instead of in place
reserveAppend(m, minBalance, t) ==
    LET swept == recycleExpired(m, t)
        required == IF minBalance = Missing THEN minCoinBalance ELSE Val(minBalance)
        i == FirstAvailable(swept.coins, required, 1)
    IN  IF i = 0
        THEN [coins |-> swept.coins, coin |-> Missing, expired |-> swept.expired]
        ELSE LET taken == [swept.coins[i] EXCEPT !.status = "reserved",
                                                 !.reservedAt = At(t)]
             IN  [coins |-> Append(swept.coins, taken),
                  coin |-> Some(taken),
                  expired |-> swept.expired]

\* (mutant) the scan runs on the pool as it is, expired reservations and all
reserveUnswept(m, minBalance, t) ==
    LET required == IF minBalance = Missing THEN minCoinBalance ELSE Val(minBalance)
        i == FirstAvailable(m, required, 1)
    IN  IF i = 0
        THEN [coins |-> m, coin |-> Missing, expired |-> <<>>]
        ELSE LET taken == [m[i] EXCEPT !.status = "reserved", !.reservedAt = At(t)]
             IN  [coins |-> [m EXCEPT ![i] = taken],
                  coin |-> Some(taken),
                  expired |-> <<>>]

reserve(m, minBalance, t) ==
    LET swept == recycleExpired(m, t)
        required == IF minBalance = Missing THEN minCoinBalance ELSE Val(minBalance)
        i == FirstAvailable(swept.coins, required, 1)
    IN  IF i = 0
        THEN [coins |-> swept.coins, coin |-> Missing, expired |-> swept.expired]
        ELSE LET taken == [swept.coins[i] EXCEPT !.status = "reserved",
                                                 !.reservedAt = At(t)]
             IN  [coins |-> [swept.coins EXCEPT ![i] = taken],
                  coin |-> Some(taken),
                  expired |-> swept.expired]

(***************************************************************************)
(* CoinPool.release(objectId)                                              *)
(***************************************************************************)
\* (mutant) release leaves the coin Reserved
releaseNothing(m, id) == m

\* (mutant) release flips the status and leaves the timestamp
releaseKeepsStamp(m, id) ==
    LET i == MapIndex(m, id)
    IN  IF i # 0 /\ m[i].status = "reserved"
        THEN [m EXCEPT ![i].status = "available"]
        ELSE m

release(m, id) ==
    LET i == MapIndex(m, id)
    IN  IF i # 0 /\ m[i].status = "reserved"
        THEN [m EXCEPT ![i].status = "available", ![i].reservedAt = NoTime]
        ELSE m

(***************************************************************************)
(* CoinPool.updateFromEffects(effects, objectId)                           *)
(***************************************************************************)
\* BigInt(s) of a decimal string, written as its sequence of digits
RECURSIVE BigInt(_)
BigInt(s) == IF s = <<>> THEN 0 ELSE 10 * BigInt(SubSeq(s, 1, Len(s) - 1)) + s[Len(s)]

\* (mutant) the non-refundable storage fee left out of the fee consumed
totalGasWithoutFee(gasUsed) ==
    BigInt(gasUsed.computationCost)
    + BigInt(gasUsed.storageCost)
    - BigInt(gasUsed.storageRebate)

totalGas(gasUsed) ==
    BigInt(gasUsed.computationCost)
    + BigInt(gasUsed.storageCost)
    - BigInt(gasUsed.storageRebate)
    + BigInt(IF gasUsed.nonRefundableStorageFee = Missing
             THEN <<0>> ELSE Val(gasUsed.nonRefundableStorageFee))

remainingBalance(balance, gasUsed) ==
    IF balance - totalGas(gasUsed) < 0 THEN 0 ELSE balance - totalGas(gasUsed)

\* (mutant) no identity check: misrouted effects are applied to the coin
updateFromEffectsUnchecked(m, effects, id) ==
    LET i == MapIndex(m, id)
        gasRef == Val(Val(effects.gasObject).reference)
        gasUsed == Val(effects.gasUsed)
    IN  IF i = 0 THEN m
        ELSE LET remaining == remainingBalance(m[i].balance, gasUsed)
             IN  IF remaining >= minCoinBalance
                 THEN [m EXCEPT ![i].version = gasRef.version,
                                ![i].digest = gasRef.digest,
                                ![i].balance = remaining,
                                ![i].status = "available",
                                ![i].reservedAt = NoTime]
                 ELSE MapDelete(m, id)

\* (mutant) effects for a coin no longer tracked put the coin back
updateFromEffectsRevives(m, effects, id) ==
    LET i == MapIndex(m, id)
        gasRef == Val(Val(effects.gasObject).reference)
    IN  IF i = 0
        THEN Append(m, [objectId |-> id, status |-> "available",
                        reservedAt |-> NoTime, balance |-> targetCoinBalance,
                        version |-> gasRef.version, digest |-> gasRef.digest])
        ELSE updateFromEffectsUnchecked(m, effects, id)

updateFromEffects(m, effects, id) ==
    LET i == MapIndex(m, id)
        gasRef == Val(Val(effects.gasObject).reference)
        gasUsed == Val(effects.gasUsed)
    IN  IF i = 0 THEN m
        ELSE IF gasRef.objectId # id THEN MapDelete(m, id)
        ELSE LET remaining == remainingBalance(m[i].balance, gasUsed)
             IN  IF remaining >= minCoinBalance
                 THEN [m EXCEPT ![i].version = gasRef.version,
                                ![i].digest = gasRef.digest,
                                ![i].balance = remaining,
                                ![i].status = "available",
                                ![i].reservedAt = NoTime]
                 ELSE MapDelete(m, id)

(***************************************************************************)
(* GasSponsor.reportExecution(reservation, effects)                        *)
(***************************************************************************)
effectsInvalid(effects) ==
    \/ effects.gasObject = Missing
    \/ Val(effects.gasObject).reference = Missing
    \/ effects.gasUsed = Missing

\* (mutant) effects of the wrong shape taken as a sign that the coin's state
\* is unknown: the entry is dropped
reportExecutionDropping(m, reservation, effects) ==
    IF effectsInvalid(effects)
    THEN [coins |-> MapDelete(m, reservation.objectId), error |-> "INVALID_EFFECTS"]
    ELSE [coins |-> updateFromEffects(m, effects, reservation.objectId),
          error |-> "none"]

reportExecution(m, reservation, effects) ==
    IF effectsInvalid(effects)
    THEN [coins |-> m, error |-> "INVALID_EFFECTS"]
    ELSE [coins |-> updateFromEffects(m, effects, reservation.objectId),
          error |-> "none"]

(***************************************************************************)
(* CoinPool.revalidatePool(client): the loop after multiGetObjects returns.*)
(*   ids: the keys read before the fetch; objects: the response, by index. *)
(***************************************************************************)
\* (mutant) reserved coins are refreshed like the others
revalidateOneAnyStatus(m, id, obj) ==
    LET i == MapIndex(m, id)
    IN  IF i = 0 THEN m
        ELSE IF obj.data # Missing
        THEN [m EXCEPT ![i].version = Val(obj.data).version,
                       ![i].digest = Val(obj.data).digest,
                       ![i].balance = IF Val(obj.data).balance # Missing
                                      THEN Val(Val(obj.data).balance) ELSE @]
        ELSE MapDelete(m, id)

revalidateOne(m, id, obj) ==
    LET i == MapIndex(m, id)
    IN  IF i = 0 THEN m
        ELSE IF m[i].status = "reserved" THEN m
        ELSE IF obj.data # Missing
        THEN [m EXCEPT ![i].version = Val(obj.data).version,
                       ![i].digest = Val(obj.data).digest,
                       ![i].balance = IF Val(obj.data).balance # Missing
                                      THEN Val(Val(obj.data).balance) ELSE @]
        ELSE MapDelete(m, id)

RECURSIVE revalidateLoop(_, _, _, _)
revalidateLoop(m, ids, objects, k) ==
    IF k > Len(ids) THEN m
    ELSE revalidateLoop(revalidateOne(m, ids[k], objects[k]), ids, objects, k + 1)

(***************************************************************************)
(* CoinPool.getStats()                                                     *)
(***************************************************************************)
RECURSIVE statsLoop(_, _)
statsLoop(m, acc) ==
    IF m = <<>> THEN acc
    ELSE statsLoop(Tail(m),
            [available |-> acc.available
                            + (IF Head(m).status = "available" THEN 1 ELSE 0),
             reserved |-> acc.reserved
                            + (IF Head(m).status = "available" THEN 0 ELSE 1),
             totalBalance |-> acc.totalBalance + Head(m).balance])

getStats(m) ==
    LET s == statsLoop(m, [available |-> 0, reserved |-> 0, totalBalance |-> 0])
    IN  [total |-> Len(m), available |-> s.available, reserved |-> s.reserved,
         totalBalance |-> s.totalBalance]

(***************************************************************************)
(* policy.ts: the commands of a transaction body and the drain check       *)
(***************************************************************************)
GasCoin == [kind |-> "GasCoin"]
Input == [kind |-> "Input"]
Result == [kind |-> "Result"]

SplitCoins(coin, amounts) == [kind |-> "SplitCoins", coin |-> coin, amounts |-> amounts]
TransferObjects(objects, address) ==
    [kind |-> "TransferObjects", objects |-> objects, address |-> address]
MergeCoins(destination, sources) ==
    [kind |-> "MergeCoins", destination |-> destination, sources |-> sources]
MoveCall(arguments) == [kind |-> "MoveCall", arguments |-> arguments]
MakeMoveVec(elements) == [kind |-> "MakeMoveVec", elements |-> elements]
Upgrade(ticket) == [kind |-> "Upgrade", ticket |-> ticket]
Publish == [kind |-> "Publish"]
Intent == [kind |-> "$Intent"]

\* (mutant) MakeMoveVec and Upgrade fall through to the default branch
getCommandArgumentsPartial(command) ==
    CASE command.kind = "SplitCoins" -> <<command.coin>> \o command.amounts
      [] command.kind = "TransferObjects" -> Append(command.objects, command.address)
      [] command.kind = "MergeCoins" -> <<command.destination>> \o command.sources
      [] command.kind = "MoveCall" -> command.arguments
      [] OTHER -> <<>>

getCommandArguments(command) ==
    CASE command.kind = "SplitCoins" -> <<command.coin>> \o command.amounts
      [] command.kind = "TransferObjects" -> Append(command.objects, command.address)
      [] command.kind = "MergeCoins" -> <<command.destination>> \o command.sources
      [] command.kind = "MoveCall" -> command.arguments
      [] command.kind = "MakeMoveVec" -> command.elements
      [] command.kind = "Upgrade" -> <<command.ticket>>
      [] command.kind = "Publish" -> <<>>
      [] OTHER -> <<>>

\* assertNoGasCoinUsage(commands): the error it throws, "none" when it returns
assertNoGasCoinUsage(commands) ==
    IF \E i \in 1 .. Len(commands) :
          \E j \in 1 .. Len(getCommandArguments(commands[i])) :
              getCommandArguments(commands[i])[j].kind = "GasCoin"
    THEN "POLICY_VIOLATION" ELSE "none"

\* validatePolicy(policy, sender, kindBytes, estimatedBudget), for policies
\* made of maxBudgetPerTx and allowGasCoinUsage: the error thrown, or "none"
validatePolicy(policy, estimatedBudget) ==
    IF policy.maxBudgetPerTx # Missing /\ estimatedBudget > Val(policy.maxBudgetPerTx)
    THEN "POLICY_VIOLATION" ELSE "none"

(***************************************************************************)
(* GasSponsor.sponsorTransaction, cut at its await points                  *)
(***************************************************************************)
\* kind bytes: bytes the codec cannot parse, or the encoding of commands
BadBytes == [ok |-> FALSE, commands |-> <<>>]
KindBytes(commands) == [ok |-> TRUE, commands |-> commands]

HexDigits == {"0", "1", "2", "a", "F"}

\* SUI_ADDRESS_RE.test(sender), /^0x[0-9a-fA-F]{1,64}$/, on the characters
SUI_ADDRESS_RE(sender) ==
    /\ Len(sender) >= 3
    /\ Len(sender) <= 66
    /\ sender[1] = "0"
    /\ sender[2] = "x"
    /\ \A i \in 3 .. Len(sender) : sender[i] \in HexDigits

\* const policy = options.policy ?? this.defaultPolicy
policyInEffect(policy) == IF policy # Missing THEN policy ELSE defaultPolicy

\* !policy?.allowGasCoinUsage
drainCheckApplies(policy) ==
    ~(policy # Missing /\ Val(policy).allowGasCoinUsage = Some(TRUE))

maxBudgetOf(policy) ==
    IF policy = Missing THEN Missing ELSE Val(policy).maxBudgetPerTx

\* step 6: the budget set on the transaction before it is built
budgetToSet(gasBudget, policy) ==
    IF gasBudget # Missing THEN Val(gasBudget)
    ELSE IF maxBudgetOf(policy) # Missing THEN Val(maxBudgetOf(policy))
    ELSE defaultMaxBudget

\* (mutant) the built budget is not looked at again
exceedsNothing(policy, builtBudget) == FALSE

\* step 10: the post-build cap on the budget of the built transaction
exceedsPolicyMax(policy, builtBudget) ==
    maxBudgetOf(policy) # Missing /\ builtBudget > Val(maxBudgetOf(policy))

\* one call of sponsorTransaction: where it is suspended, the locals it
\* holds (kind is the parsed transaction), how it ended; entry, swept and
\* notified are history -- the pool counts at the call, kept for as long as
\* nothing but the call's own reserve and release changes the pool, the
\* expired reservations that reserve swept, and how each invocation of
\* onPoolDepleted by the call ended
IdleTask ==
    [pc |-> "idle", gasBudget |-> Missing, policy |-> Missing, kind |-> Missing,
     coin |-> Missing, error |-> "none", result |-> Missing,
     entry |-> Missing, swept |-> 0, notified |-> <<>>]

\* the fields of the reserved coin's snapshot that the call reads back
Snapshot(coin) ==
    IF coin = Missing THEN Missing
    ELSE Some([objectId |-> Val(coin).objectId, reservedAt |-> Val(coin).reservedAt])

\* the call ends with an error; what it reserved stays on record
Failed(task, code) ==
    [task EXCEPT !.pc = "error", !.error = code, !.gasBudget = Missing]

Counts(stats) ==
    [total |-> stats.total, available |-> stats.available, reserved |-> stats.reserved]

\* (mutant) the catch block rethrows without releasing the coin
catchReleaseForgotten(m, task) == m

\* catch (err) { this.pool.release(coin.objectId); throw err }
catchRelease(m, task) == release(m, Val(task.coin).objectId)

\* step 4b: if (!policy?.allowGasCoinUsage) assertNoGasCoinUsage(commands)
checkCommands(policy, commands) ==
    IF drainCheckApplies(policy) THEN assertNoGasCoinUsage(commands) ELSE "none"

\* (mutant) the callback is invoked on exhaustion only
isExhausted(coin, stats) == coin = Missing

\* the two places that invoke the callback: reserve returned null, or the
\* reservation left getStats().available === 0
isDepleted(coin, stats) == coin = Missing \/ stats.available = 0

\* (mutant) the callback is invoked outside a try block
notifyUncaught(callback, thrown) ==
    [invoked |-> <<IF thrown THEN "threw" ELSE "returned">>,
     error |-> IF thrown THEN "Error" ELSE "none"]

\* if (this.onPoolDepleted) { try { this.onPoolDepleted(stats) } catch {} }:
\* how the invocations ended, and the error that leaves the statement
notify(callback, thrown) ==
    IF callback = Missing THEN [invoked |-> <<>>, error |-> "none"]
    ELSE [invoked |-> <<IF thrown THEN "threw" ELSE "returned">>, error |-> "none"]

\* steps 3-6: reserve, parse the kind bytes, drain check, gas data; the
\* outcome is the pool and the task as they are when tx.build suspends or
\* the error leaves the call
reserveAndPrepare(m, task, kind, t, thrown) ==
    LET r == reserve(m, task.gasBudget, t)
        depleted == isDepleted(r.coin, getStats(r.coins))
        n == IF depleted THEN notify(onPoolDepleted, thrown) ELSE [invoked |-> <<>>, error |-> "none"]
        held == [task EXCEPT !.coin = Snapshot(r.coin),
                             !.swept = IF task.entry = Missing THEN 0
                                       ELSE Len(r.expired),
                             !.notified = n.invoked]
        parsed == [held EXCEPT !.kind = Some(kind)]
        error == checkCommands(task.policy, kind.commands)
    IN  IF n.error # "none"
        THEN [coins |-> r.coins, task |-> Failed(held, n.error)]
        ELSE IF r.coin = Missing
        THEN [coins |-> r.coins, task |-> Failed(held, "POOL_EXHAUSTED")]
        ELSE IF ~kind.ok
        THEN [coins |-> catchRelease(r.coins, held),
              task |-> Failed(held, "BUILD_FAILED")]
        ELSE IF error # "none"
        THEN [coins |-> catchRelease(r.coins, held), task |-> Failed(parsed, error)]
        ELSE [coins |-> r.coins, task |-> [parsed EXCEPT !.pc = "build"]]

\* steps 9-10 and the return, once the signer has answered
finish(m, task, signed, parsed, builtBudget, t) ==
    LET error == IF ~signed THEN "SIGN_FAILED"
                 ELSE IF ~parsed THEN "Error"
                 ELSE IF exceedsPolicyMax(task.policy, builtBudget)
                      THEN "POLICY_VIOLATION"
                 ELSE "none"
    IN  IF error # "none"
        THEN [coins |-> catchRelease(m, task), task |-> Failed(task, error)]
        ELSE [coins |-> m,
              task |-> [IdleTask EXCEPT !.pc = "ok",
                          !.notified = task.notified,
                          !.policy = task.policy,
                          !.result = Some([commands |-> Val(task.kind).commands,
                                           gasBudget |-> builtBudget,
                                           reservation |->
                                             [objectId |-> Val(task.coin).objectId,
                                              reservedAt |->
                                                IF Val(task.coin).reservedAt # NoTime
                                                THEN Val(Val(task.coin).reservedAt)
                                                ELSE t]])]]

(***************************************************************************)
(* CoinPool.initialize, CoinPool.replenish, CoinPool.splitCoins and        *)
(* CoinPool.close, cut at their await points                               *)
(***************************************************************************)
\* Map.set: an entry with a tracked key is replaced in place, a new key is
\* added at the end
MapSet(m, entry) ==
    IF MapHas(m, entry.objectId)
    THEN [m EXCEPT ![MapIndex(m, entry.objectId)] = entry]
    ELSE Append(m, entry)

\* { ...coin, status: "available", reservedAt: null }
AvailableEntry(ref, balance) ==
    [objectId |-> ref.objectId, version |-> ref.version, digest |-> ref.digest,
     balance |-> balance, status |-> "available", reservedAt |-> NoTime]

isUsable(balance) == balance >= minCoinBalance /\ balance <= targetCoinBalance * 2
isSource(balance) == balance > targetCoinBalance * 2

\* the loop over the listed coins: the right-sized ones and the ones to
\* split, leaving out the ids in skipped and the dust
RECURSIVE classify(_, _, _, _)
classify(existingCoins, skipped, usable, sourceRefs) ==
    IF existingCoins = <<>> THEN [usable |-> usable, sourceRefs |-> sourceRefs]
    ELSE LET coin == Head(existingCoins)
             balance == BigInt(coin.balance)
             ref == [objectId |-> coin.coinObjectId, version |-> coin.version,
                     digest |-> coin.digest]
         IN  IF coin.coinObjectId \in skipped
             THEN classify(Tail(existingCoins), skipped, usable, sourceRefs)
             ELSE IF isUsable(balance)
             THEN classify(Tail(existingCoins), skipped,
                           Append(usable, AvailableEntry(ref, balance)), sourceRefs)
             ELSE IF isSource(balance)
             THEN classify(Tail(existingCoins), skipped, usable,
                           Append(sourceRefs, ref))
             ELSE classify(Tail(existingCoins), skipped, usable, sourceRefs)

\* for (const coin of usable) { if (added >= needed) break; set; added++ }
RECURSIVE addUsable(_, _, _, _)
addUsable(m, usable, needed, added) ==
    IF usable = <<>> \/ added >= needed THEN [coins |-> m, added |-> added]
    ELSE addUsable(MapSet(m, Head(usable)), Tail(usable), needed, added + 1)

\* (mutant) replenish classifies what is listed without skipping tracked ids
replenishFetchedAll(m, existingCoins) ==
    LET needed == targetPoolSize - Len(m)
        c == classify(existingCoins, {}, <<>>, <<>>)
        a == addUsable(m, c.usable, needed, 0)
    IN  IF needed <= 0 THEN [coins |-> m, count |-> 0]
        ELSE [coins |-> a.coins,
              count |-> IF needed - a.added > 0 /\ c.sourceRefs # <<>>
                        THEN needed - a.added ELSE 0]

\* (mutant) replenish clears the Map before it fills it, as initialize does
replenishFetchedCleared(m, existingCoins) ==
    LET needed == targetPoolSize - Len(m)
        c == classify(existingCoins, {}, <<>>, <<>>)
        a == addUsable(<<>>, c.usable, needed, 0)
    IN  IF needed <= 0 THEN [coins |-> m, count |-> 0]
        ELSE [coins |-> a.coins,
              count |-> IF needed - a.added > 0 /\ c.sourceRefs # <<>>
                        THEN needed - a.added ELSE 0]

\* (mutant) the split is asked for the whole of what was needed
replenishFetchedSplitAll(m, existingCoins) ==
    LET needed == targetPoolSize - Len(m)
        c == classify(existingCoins, KeySet(m), <<>>, <<>>)
        a == addUsable(m, c.usable, needed, 0)
    IN  IF needed <= 0 THEN [coins |-> m, count |-> 0]
        ELSE [coins |-> a.coins,
              count |-> IF c.sourceRefs # <<>> THEN needed ELSE 0]

\* replenish once the listing is in: the pool it leaves, and the number of
\* coins it goes on to split off (0: it returns)
replenishFetched(m, existingCoins) ==
    LET needed == targetPoolSize - Len(m)
        c == classify(existingCoins, KeySet(m), <<>>, <<>>)
        a == addUsable(m, c.usable, needed, 0)
    IN  IF needed <= 0 THEN [coins |-> m, count |-> 0]
        ELSE [coins |-> a.coins,
              count |-> IF needed - a.added > 0 /\ c.sourceRefs # <<>>
                        THEN needed - a.added ELSE 0]

\* (mutant) every usable coin of the listing is set
initializeFetchedUncapped(m, existingCoins) ==
    LET c == classify(existingCoins, {}, <<>>, <<>>)
        a == addUsable(m, c.usable, Len(c.usable), 0)
        needed == targetPoolSize - Len(a.coins)
    IN  [coins |-> a.coins,
         count |-> IF needed > 0 /\ c.sourceRefs # <<>> THEN needed ELSE 0]

\* initialize once the listing is in: usable.slice(0, targetPoolSize) is set
initializeFetched(m, existingCoins) ==
    LET c == classify(existingCoins, {}, <<>>, <<>>)
        a == addUsable(m, c.usable, targetPoolSize, 0)
        needed == targetPoolSize - Len(a.coins)
    IN  [coins |-> a.coins,
         count |-> IF needed > 0 /\ c.sourceRefs # <<>> THEN needed ELSE 0]

RECURSIVE setCreated(_, _)
setCreated(m, created) ==
    IF created = <<>> THEN m
    ELSE setCreated(MapSet(m, AvailableEntry(Head(created), targetCoinBalance)),
                    Tail(created))

\* splitCoins once executeTransactionBlock has answered with effects.created
splitExecuted(m, created) ==
    IF created = Missing \/ Val(created) = <<>>
    THEN [coins |-> m, error |-> "Error"]
    ELSE [coins |-> setCreated(m, Val(created)), error |-> "none"]

\* close up to its first await: sweep, and with at most one Available coin
\* clear and return (merge: FALSE)
closeStarted(m, t) ==
    LET swept == recycleExpired(m, t).coins
        available == SelectSeq(swept, LAMBDA c : c.status = "available")
    IN  IF Len(available) <= 1 THEN [coins |-> <<>>, merge |-> FALSE]
        ELSE [coins |-> swept, merge |-> TRUE]

(***************************************************************************)
(* GasSponsor.getGasPrice: the cache test and the wait at the epoch        *)
(* boundary, in milliseconds                                               *)
(***************************************************************************)
DEFAULT_EPOCH_BOUNDARY_WINDOW == 1000
MAX_EPOCH_BOUNDARY_WAIT == 30000
MinBoundaryWait == 1000               \* minimum 1 second wait

Min(a, b) == IF a <= b THEN a ELSE b
Max(a, b) == IF a >= b THEN a ELSE b

\* (mutant) the wait is not capped
timeToNextEpochUncapped(expiration, window, t) ==
    Max(expiration + window - t, MinBoundaryWait)

\* Math.min(Math.max(expiration + window - Date.now(), 1_000), MAX)
timeToNextEpoch(expiration, window, t) ==
    Min(Max(expiration + window - t, MinBoundaryWait), MAX_EPOCH_BOUNDARY_WAIT)

\* the test of the cache, with the clock read at t1 for the test and at t2
\* for the wait: return the cached price, sleep, or refresh at once
checkCache(cache, window, t1, t2) ==
    IF cache = Missing THEN [next |-> "refresh", wait |-> Missing]
    ELSE IF Val(cache).expiration - window - t1 > 0
    THEN [next |-> "done", wait |-> Missing]
    ELSE [next |-> "sleep",
          wait |-> Some(timeToNextEpoch(Val(cache).expiration, window, t2))]

(***************************************************************************)
(* Inputs                                                                  *)
(***************************************************************************)
\* gas summaries (decimal strings, as digit sequences): each case of the
\* consumed fee -- nothing, a charge, a net refund, a charge through the
\* non-refundable fee alone, and a charge above any tracked balance
GasSummary(c, s, r, f) ==
    [computationCost |-> c, storageCost |-> s, storageRebate |-> r,
     nonRefundableStorageFee |-> f]

GasUsedSet ==
    {GasSummary(<<0>>, <<0>>, <<0>>, Missing),
     GasSummary(<<1>>, <<0>>, <<0>>, Missing),
     GasSummary(<<0>>, <<0>>, <<1>>, Missing),
     GasSummary(<<0>>, <<1>>, <<1>>, Some(<<1>>)),
     GasSummary(<<1, 0>>, <<0>>, <<1>>, Some(<<1>>))}

\* the gas coin's reference after execution: the chain has moved it to the
\* newest version
RefSet == {[objectId |-> id, version |-> NewVersion, digest |-> NewVersion] :
             id \in Ids}

EffectsSet ==
    {[gasObject |-> Some([reference |-> Some(r)]), gasUsed |-> Some(g)] :
        r \in RefSet, g \in GasUsedSet}
    \cup {[gasObject |-> Missing, gasUsed |-> Some(CHOOSE g \in GasUsedSet : TRUE)],
          [gasObject |-> Some([reference |-> Missing]),
           gasUsed |-> Some(CHOOSE g \in GasUsedSet : TRUE)],
          [gasObject |-> Some([reference |-> Some(CHOOSE r \in RefSet : TRUE)]),
           gasUsed |-> Missing]}

\* what multiGetObjects answers for one id: the object is gone, or its
\* current reference, with or without a balance in its content
ObjectData(v, b) == [data |-> Some([version |-> v, digest |-> v, balance |-> b])]

ObjectResponses ==
    {[data |-> Missing]}
    \cup {ObjectData(v, Missing) : v \in Versions}
    \cup {ObjectData(NewVersion, Some(1)), ObjectData(1, Some(MaxBalance))}

\* the pools a successful initialize leaves: usable coins, all available
InitialEntry(id, b) ==
    [objectId |-> id, version |-> 1, digest |-> 1, balance |-> b,
     status |-> "available", reservedAt |-> NoTime]

Usable == {b \in Balances : b >= minCoinBalance /\ b <= targetCoinBalance * 2}

InitialPools ==
    {<<InitialEntry("A", a), InitialEntry("B", b)>> : a \in Usable, b \in Usable}

\* sponsorship requests: senders, policies, budgets and transaction bodies
Senders == {<<"0", "x", "2">>, <<"0", "x", "a", "F">>, <<"0", "x">>, <<"2">>,
            <<"0", "x", "g">>}

Policy(max, allow) == [maxBudgetPerTx |-> max, allowGasCoinUsage |-> allow]

Policies ==
    {Missing, Some(Policy(Some(targetCoinBalance), Some(FALSE))),
     Some(Policy(Missing, Some(TRUE)))}

GasBudgets == {Missing, Some(targetCoinBalance), Some(MaxBalance)}

\* a body that never names the gas coin, and one command of each kind that
\* carries arguments with the gas coin among them
CleanBodies ==
    {<<SplitCoins(Input, <<Input>>), TransferObjects(<<Result>>, Input)>>,
     <<MoveCall(<<Input, Result>>), Publish, Intent>>}

GasCoinBodies ==
    {<<SplitCoins(GasCoin, <<Input>>), TransferObjects(<<Result>>, Input)>>,
     <<SplitCoins(Input, <<GasCoin>>)>>,
     <<TransferObjects(<<GasCoin>>, Input)>>,
     <<MergeCoins(Input, <<GasCoin>>)>>,
     <<MergeCoins(GasCoin, <<Input>>)>>,
     <<MoveCall(<<Input>>), MoveCall(<<Input, GasCoin>>)>>,
     <<MakeMoveVec(<<GasCoin>>)>>,
     <<Upgrade(GasCoin)>>}

KindBytesSet ==
    {BadBytes} \cup {KindBytes(c) : c \in CleanBodies \cup GasCoinBodies}

\* what getCoins lists: the sponsor's coins with their balances as decimal
\* strings -- a right-sized coin at one balance or another, a coin large
\* enough to split, dust, and the coins that earlier splits created
Listed(id, balance) ==
    [coinObjectId |-> id, version |-> 1, digest |-> 1, balance |-> balance]

FreshIds == {"C", "D"}             \* objectIds the chain gives to created coins
MaxListed == 2                    \* coins in one listing

ChainCoins ==
    {Listed("A", <<2>>), Listed("A", <<3>>), Listed("S", <<5>>),
     Listed("Z", <<1>>)}
    \cup {Listed(id, <<2>>) : id \in minted}

Listings ==
    {l \in UNION {[1 .. n -> ChainCoins] : n \in 0 .. MaxListed} :
        \A i, j \in 1 .. Len(l) : i # j => l[i].coinObjectId # l[j].coinObjectId}

\* effects.created of a split that asked for count coins: absent, empty, or
\* count references the chain has not handed out before
CreatedRef(id) == [objectId |-> id, version |-> 1, digest |-> 1]

CreatedSets(count) ==
    {Missing, Some(<<>>)}
    \cup {Some(l) : l \in
            {c \in [1 .. count -> {CreatedRef(id) : id \in FreshIds \ minted}] :
                \A i, j \in 1 .. count : i # j => c[i] # c[j]}}

\* what multiGetObjects answers while a price is being fetched
PriceResponses == {[data |-> Missing], ObjectData(NewVersion, Missing)}

NoOutstanding == [id \in Ids |-> 0]
NoTasks == [p \in Tasks |-> IdleTask]

\* a call of initialize, replenish, close or getGasPrice: where it is
\* suspended, the error it threw, the coins its split asks for, the ids its
\* revalidation asked about, whether its listing held a usable or a source
\* coin, the ids tracked when it started, what the pool held then (as long
\* as no other operation has changed the pool), the delay it gave
\* setTimeout and the time at which it did
IdleCall ==
    [pc |-> "idle", error |-> "none", count |-> 0, ids |-> <<>>,
     funded |-> FALSE, startKeys |-> {}, before |-> Missing, wait |-> Missing,
     at |-> Missing]
NoCalls == [op \in {"initialize", "replenish", "close", "getGasPrice"} |-> IdleCall]

\* the cache a successful initialize leaves: the price of the epoch that
\* runs until the end of the clock
CachedPrice(epoch, expiration) == [epoch |-> epoch, expiration |-> expiration]
InitialCache == Some(CachedPrice(1, MaxTime))
DefaultWindow == 1

\* getLatestSuiSystemState: the epoch and the time it ends
SystemStates == {CachedPrice(epoch, MaxTime + epoch - 1) : epoch \in {1, 2}}

Bump(f, id) == IF id \in DOMAIN f THEN [f EXCEPT ![id] = IF @ < 2 THEN @ + 1 ELSE @] ELSE f
Clear(f, ids) == [id \in DOMAIN f |-> IF id \in ids THEN 0 ELSE f[id]]
Range(s) == {s[i] : i \in 1 .. Len(s)}

\* last names the latest operation that changed the pool
Outcome(rec) == IF coins' = coins THEN last ELSE rec

\* a step that changes the pool, other than the reserve and the release of
\* caller p, ends the time a call in flight has had the pool to itself
OthersDisturbed(p) ==
    [q \in DOMAIN tasks |->
        IF q # p /\ tasks[q].pc \notin {"idle", "ok", "error"} /\ coins' # coins
        THEN [tasks[q] EXCEPT !.entry = Missing, !.swept = 0] ELSE tasks[q]]

(***************************************************************************)
(* Actions of the pool                                                     *)
(***************************************************************************)
Init ==
    /\ coins \in InitialPools
    /\ now = 0
    /\ reval = {}
    /\ last = [op |-> "initialize", out |-> "ok"]
    /\ outstanding = NoOutstanding
    /\ initialized = TRUE
    /\ tasks = NoTasks
    /\ gasPriceCache = InitialCache
    /\ needsRevalidation = FALSE
    /\ epochBoundaryWindow = DefaultWindow
    /\ calls = NoCalls
    /\ minted = {}
    /\ onPoolDepleted = Missing

Tick ==
    /\ now < MaxTime
    /\ now' = now + 1
    /\ UNCHANGED <<coins, reval, last, outstanding, initialized, tasks, admin>>

ReserveStep(minBalance) ==
    LET r == reserve(coins, minBalance, now)
    IN  /\ coins' = r.coins
        /\ last' = Outcome([op |-> "reserve",
                    out |-> IF r.coin = Missing THEN "null" ELSE "coin"])
        /\ outstanding' =
             LET o == Clear(outstanding, Range(r.expired))
             IN  IF r.coin = Missing THEN o ELSE Bump(o, Val(r.coin).objectId)
        /\ tasks' = OthersDisturbed("pool")
        /\ UNCHANGED <<now, reval, initialized, admin>>

Reserve ==
    \E minBalance \in {Missing, Some(1), Some(MaxBalance)} :
        ReserveStep(minBalance)

ReleaseStep(id) ==
    /\ coins' = release(coins, id)
    /\ last' = Outcome([op |-> "release",
                out |-> "released"])
    /\ outstanding' = Clear(outstanding, {id})
    /\ tasks' = OthersDisturbed("pool")
    /\ UNCHANGED <<now, reval, initialized, admin>>

Release == \E id \in Ids : ReleaseStep(id)

ReportStep(id, effects) ==
    LET r == reportExecution(coins, [objectId |-> id], effects)
    IN  /\ coins' = r.coins
        /\ last' = Outcome([op |-> "reportExecution",
                    out |-> IF r.error # "none" THEN r.error
                            ELSE IF ~MapHas(coins, id) THEN "untracked"
                            ELSE IF Val(Val(effects.gasObject).reference).objectId # id
                                 THEN "mismatch"
                            ELSE IF MapHas(r.coins, id) THEN "kept" ELSE "removed"])
        /\ outstanding' = IF r.error = "none" THEN Clear(outstanding, {id})
                          ELSE outstanding
        /\ tasks' = OthersDisturbed("pool")
        /\ UNCHANGED <<now, reval, initialized, admin>>

\* balances are capped at MaxBalance: a net refund is applied only below the cap
ReportExecution ==
    \E id \in Ids, effects \in EffectsSet :
        /\ ReportStep(id, effects)
        /\ \A i \in 1 .. Len(coins') : coins'[i].balance <= MaxBalance

SweepStep(t) ==
    LET r == recycleExpired(coins, t)
    IN  /\ coins' = r.coins
        /\ last' = Outcome([op |-> "recycleExpired",
                    out |-> IF r.expired = <<>> THEN "nothing" ELSE "swept"])
        /\ outstanding' = Clear(outstanding, Range(r.expired))
        /\ tasks' = OthersDisturbed("pool")
        /\ UNCHANGED <<now, reval, initialized, admin>>

RecycleExpired == \E t \in Times : SweepStep(t)

\* revalidatePool up to its await: reads the keys, returns at once when empty
RevalidateStart ==
    /\ MapKeys(coins) # <<>>
    /\ MapKeys(coins) \notin reval
    /\ Cardinality(reval) < MaxPending
    /\ reval' = reval \cup {MapKeys(coins)}
    /\ UNCHANGED <<coins, now, last, outstanding, initialized, tasks, admin>>

RevalidateFinishStep(ids, objects) ==
    /\ ids \in reval
    /\ reval' = reval \ {ids}
    /\ coins' = revalidateLoop(coins, ids, objects, 1)
    /\ last' = Outcome([op |-> "revalidatePool",
                out |-> "changed"])
    /\ tasks' = OthersDisturbed("pool")
    /\ UNCHANGED <<now, outstanding, initialized, admin>>

RevalidateFinish ==
    \E ids \in reval :
        \E objects \in [1 .. Len(ids) -> ObjectResponses] :
            RevalidateFinishStep(ids, objects)

Next ==
    \/ Tick
    \/ Reserve
    \/ Release
    \/ ReportExecution
    \/ RecycleExpired
    \/ RevalidateStart
    \/ RevalidateFinish

Spec == Init /\ [][Next]_vars

(***************************************************************************)
(* Actions of GasSponsor.sponsorTransaction, one per stretch between awaits *)
(***************************************************************************)
InitSponsor ==
    /\ initialized \in BOOLEAN
    /\ coins \in (IF initialized THEN InitialPools ELSE {<<>>})
    /\ now = 0
    /\ reval = {}
    /\ last = [op |-> "initialize", out |-> "ok"]
    /\ outstanding = NoOutstanding
    /\ tasks = NoTasks
    /\ gasPriceCache = (IF initialized THEN InitialCache ELSE Missing)
    /\ needsRevalidation = FALSE
    /\ epochBoundaryWindow = DefaultWindow
    /\ calls = NoCalls
    /\ minted = {}
    /\ onPoolDepleted = Missing

\* the call up to await this.getGasPrice()
SponsorStartStep(p, sender) ==
    /\ tasks[p].pc = "idle"
    /\ tasks' = [tasks EXCEPT ![p] =
                   IF ~initialized THEN Failed(IdleTask, "POOL_NOT_INITIALIZED")
                   ELSE IF ~SUI_ADDRESS_RE(sender)
                        THEN Failed(IdleTask, "POLICY_VIOLATION")
                   ELSE [IdleTask EXCEPT !.pc = "price",
                                         !.entry = Some(Counts(getStats(coins)))]]
    /\ UNCHANGED <<coins, now, reval, last, outstanding, initialized, admin>>

SponsorStart == \E p \in Tasks, sender \in Senders : SponsorStartStep(p, sender)

\* getGasPrice starts revalidatePool -- a revalidation left over from an
\* earlier failure, or the epoch has changed: the keys are read, and with
\* no coins there is nothing to wait for
PriceRevalidateStartStep(p) ==
    /\ tasks[p].pc = "price"
    /\ MapKeys(coins) # <<>>
    /\ reval = {}
    /\ reval' = {MapKeys(coins)}
    /\ tasks' = [tasks EXCEPT ![p].pc = "revalidate"]
    /\ UNCHANGED <<coins, now, last, outstanding, initialized, admin>>

PriceRevalidateStart == \E p \in Tasks : PriceRevalidateStartStep(p)

\* multiGetObjects has answered, or failed: getGasPrice swallows the failure
PriceRevalidateFinishStep(p, ids, answered, objects) ==
    /\ tasks[p].pc = "revalidate"
    /\ ids \in reval
    /\ reval' = reval \ {ids}
    /\ coins' = IF answered THEN revalidateLoop(coins, ids, objects, 1) ELSE coins
    /\ tasks' = [OthersDisturbed("pool") EXCEPT ![p].pc = "price"]
    /\ UNCHANGED <<now, last, outstanding, initialized, admin>>

PriceRevalidateFinish ==
    \E p \in Tasks, ids \in reval, answered \in BOOLEAN :
        \E objects \in [1 .. Len(ids) -> PriceResponses] :
            PriceRevalidateFinishStep(p, ids, answered, objects)

\* another caller's sponsorTransaction reserves a coin and holds on to it
OtherCallerStep(minBalance) ==
    /\ initialized
    /\ coins' = reserve(coins, minBalance, now).coins
    /\ tasks' = OthersDisturbed("other")
    /\ UNCHANGED <<now, reval, last, outstanding, initialized, admin>>

OtherCaller == \E minBalance \in GasBudgets : OtherCallerStep(minBalance)

\* whether the callback, when it is invoked, throws
CallbackThrows == IF onPoolDepleted = Missing THEN {FALSE} ELSE BOOLEAN

\* steps 3-6 by caller p, whose request carries the kind bytes kind
PrepareStep(p, task, kind, thrown) ==
    LET r == reserveAndPrepare(coins, task, kind, now, thrown)
    IN  /\ coins' = r.coins
        /\ tasks' = [OthersDisturbed(p) EXCEPT ![p] = r.task]
        /\ UNCHANGED <<now, reval, last, outstanding, initialized, admin>>

\* getGasPrice has answered: step 2, and without a policy steps 3-6 as well,
\* since nothing is awaited in between
SponsorPricedStep(p, fetched, gasBudget, policy, kind, thrown) ==
    LET task == [tasks[p] EXCEPT !.gasBudget = gasBudget,
                                 !.policy = policyInEffect(policy)]
        estimatedBudget == IF gasBudget # Missing THEN Val(gasBudget) ELSE 0
    IN  /\ tasks[p].pc = "price"
        /\ IF ~fetched
           THEN /\ tasks' = [tasks EXCEPT ![p] = Failed(tasks[p], "Error")]
                /\ UNCHANGED <<coins, now, reval, last, outstanding, initialized, admin>>
           ELSE IF task.policy = Missing
           THEN PrepareStep(p, task, kind, thrown)
           ELSE /\ tasks' = [tasks EXCEPT ![p] =
                               IF validatePolicy(Val(task.policy), estimatedBudget) # "none"
                               THEN Failed(task, validatePolicy(Val(task.policy),
                                                                estimatedBudget))
                               ELSE [task EXCEPT !.pc = "validated"]]
                /\ UNCHANGED <<coins, now, reval, last, outstanding, initialized, admin>>

SponsorPriced ==
    \E p \in Tasks, fetched \in BOOLEAN, gasBudget \in GasBudgets,
       policy \in Policies, kind \in KindBytesSet, thrown \in CallbackThrows :
        SponsorPricedStep(p, fetched, gasBudget, policy, kind, thrown)

\* validatePolicy has resolved: steps 3-6
SponsorValidatedStep(p, kind, thrown) ==
    /\ tasks[p].pc = "validated"
    /\ PrepareStep(p, tasks[p], kind, thrown)

SponsorValidated ==
    \E p \in Tasks, kind \in KindBytesSet, thrown \in CallbackThrows :
        SponsorValidatedStep(p, kind, thrown)

\* tx.build has answered: on failure the catch block, else on to the signer
SponsorBuiltStep(p, built) ==
    /\ tasks[p].pc = "build"
    /\ coins' = IF built THEN coins ELSE catchRelease(coins, tasks[p])
    /\ tasks' = [OthersDisturbed(p) EXCEPT ![p] =
                   IF built THEN [tasks[p] EXCEPT !.pc = "sign"]
                   ELSE Failed(tasks[p], "BUILD_FAILED")]
    /\ UNCHANGED <<now, reval, last, outstanding, initialized, admin>>

SponsorBuilt == \E p \in Tasks, built \in BOOLEAN : SponsorBuiltStep(p, built)

\* the budget the built transaction carries: none, the one set in step 6,
\* or a larger one
BuiltBudgets(task) ==
    {0, budgetToSet(task.gasBudget, task.policy),
     budgetToSet(task.gasBudget, task.policy) + 1}

\* signTransaction has answered: steps 9-10 and the return
SponsorSignedStep(p, signed, parsed, builtBudget) ==
    LET r == finish(coins, tasks[p], signed, parsed, builtBudget, now)
    IN  /\ tasks[p].pc = "sign"
        /\ coins' = r.coins
        /\ tasks' = [OthersDisturbed(p) EXCEPT ![p] = r.task]
        /\ UNCHANGED <<now, reval, last, outstanding, initialized, admin>>

SponsorSigned ==
    \E p \in Tasks, signed \in BOOLEAN, parsed \in BOOLEAN :
        \E builtBudget \in BuiltBudgets(tasks[p]) :
            SponsorSignedStep(p, signed, parsed, builtBudget)

\* the caller has the error, or drops the result without executing it
SponsorReturnStep(p) ==
    /\ tasks[p].pc \in {"ok", "error"}
    /\ tasks' = [tasks EXCEPT ![p] = IdleTask]
    /\ UNCHANGED <<coins, now, reval, last, outstanding, initialized, admin>>

SponsorReturn == \E p \in Tasks : SponsorReturnStep(p)

\* the caller executes the transaction and reports with its reservation
ClientReportStep(p, effects) ==
    /\ tasks[p].pc = "ok"
    /\ coins' = reportExecution(coins, Val(tasks[p].result).reservation, effects).coins
    /\ tasks' = [OthersDisturbed(p) EXCEPT ![p] = IdleTask]
    /\ UNCHANGED <<now, reval, last, outstanding, initialized, admin>>
    /\ \A i \in 1 .. Len(coins') : coins'[i].balance <= MaxBalance

ClientReport == \E p \in Tasks, effects \in EffectsSet : ClientReportStep(p, effects)

NextSponsor ==
    \/ Tick
    \/ SponsorStart
    \/ PriceRevalidateStart
    \/ PriceRevalidateFinish
    \/ SponsorPriced
    \/ SponsorValidated
    \/ SponsorBuilt
    \/ SponsorSigned
    \/ SponsorReturn
    \/ ClientReport
    \/ OtherCaller

SpecSponsor == InitSponsor /\ [][NextSponsor]_vars

(***************************************************************************)
(* sponsorTransaction on a GasSponsor constructed with an onPoolDepleted   *)
(* callback, its results dropped by the callers                            *)
(***************************************************************************)
InitDepleted ==
    /\ coins \in InitialPools
    /\ now = 0
    /\ reval = {}
    /\ last = [op |-> "initialize", out |-> "ok"]
    /\ outstanding = NoOutstanding
    /\ initialized = TRUE
    /\ tasks = NoTasks
    /\ gasPriceCache = InitialCache
    /\ needsRevalidation = FALSE
    /\ epochBoundaryWindow = DefaultWindow
    /\ calls = NoCalls
    /\ minted = {}
    /\ onPoolDepleted = Some("callback")

NextDepleted ==
    \/ Tick
    \/ SponsorStart
    \/ SponsorPriced
    \/ SponsorValidated
    \/ SponsorBuilt
    \/ SponsorSigned
    \/ SponsorReturn
    \/ OtherCaller

SpecDepleted == InitDepleted /\ [][NextDepleted]_vars

(***************************************************************************)
(* Actions of GasSponsor.initialize, replenish and close, one per stretch  *)
(* between awaits; splitCoins waits once for build, sign and execute       *)
(***************************************************************************)
InitLifecycle ==
    /\ coins = <<>>
    /\ now = 0
    /\ reval = {}
    /\ last = [op |-> "constructor", out |-> "ok"]
    /\ outstanding = NoOutstanding
    /\ initialized = FALSE
    /\ tasks = NoTasks
    /\ gasPriceCache = Missing
    /\ needsRevalidation = FALSE
    /\ epochBoundaryWindow = DefaultWindow
    /\ calls = NoCalls
    /\ minted = {}
    /\ onPoolDepleted = Missing

\* a step that changes the pool, other than a step of the call op itself,
\* ends the time the other calls have had the pool to themselves
CallsDisturbed(op) ==
    [o \in DOMAIN calls |->
        IF o # op /\ coins' # coins THEN [calls[o] EXCEPT !.before = Missing]
        ELSE calls[o]]

\* the operator of the gas station runs initialize, replenish and close
\* one at a time, while callers go on asking for sponsorships
MayStart == \A o \in DOMAIN calls : calls[o].pc = "idle"

Thrown(call, code) == [call EXCEPT !.pc = "error", !.error = code]

\* (mutant) replenish goes ahead whatever the flag says
requireNothing(flag) == "none"

\* if (!this.initialized) throw
requireInitialized(flag) == IF flag THEN "none" ELSE "POOL_NOT_INITIALIZED"

\* pool.initialize up to await fetchAllCoins: the Map is cleared first
InitializeStart ==
    /\ calls["initialize"].pc = "idle"
    /\ MayStart
    /\ coins' = <<>>
    /\ calls' = [CallsDisturbed("initialize") EXCEPT
                   !["initialize"] = [IdleCall EXCEPT !.pc = "fetch"]]
    /\ UNCHANGED <<now, reval, last, outstanding, initialized, tasks,
                   gasPriceCache, needsRevalidation, minted, fixed>>

\* getCoins has answered, or failed
InitializeFetchedStep(fetched, existingCoins) ==
    LET call == calls["initialize"]
        r == initializeFetched(coins, existingCoins)
        c == classify(existingCoins, {}, <<>>, <<>>)
    IN  /\ call.pc = "fetch"
        /\ coins' = IF fetched THEN r.coins ELSE coins
        /\ calls' = [CallsDisturbed("initialize") EXCEPT !["initialize"] =
                       IF ~fetched THEN Thrown(call, "Error")
                       ELSE [call EXCEPT
                               !.pc = IF r.count > 0 THEN "split" ELSE "refresh",
                               !.count = r.count,
                               !.funded = c.usable # <<>> \/ c.sourceRefs # <<>>]]
        /\ UNCHANGED <<now, reval, last, outstanding, initialized, tasks,
                       gasPriceCache, needsRevalidation, minted, fixed>>

InitializeFetched ==
    \E fetched \in BOOLEAN, existingCoins \in Listings :
        InitializeFetchedStep(fetched, existingCoins)

\* the split transaction has been built, signed and executed, or one of
\* the three has failed
SplitStep(op, executed, created, next) ==
    LET call == calls[op]
        r == splitExecuted(coins, created)
    IN  /\ call.pc = "split"
        /\ coins' = IF executed THEN r.coins ELSE coins
        /\ minted' = IF executed /\ r.error = "none"
                     THEN minted \cup {Val(created)[i].objectId :
                                         i \in 1 .. Len(Val(created))}
                     ELSE minted
        /\ calls' = [CallsDisturbed(op) EXCEPT ![op] =
                       IF ~executed THEN Thrown(call, "Error")
                       ELSE IF r.error # "none" THEN Thrown(call, r.error)
                       ELSE [call EXCEPT !.pc = next]]
        /\ UNCHANGED <<now, reval, last, outstanding, initialized, tasks,
                       gasPriceCache, needsRevalidation, fixed>>

InitializeSplit ==
    \E executed \in BOOLEAN :
        \E created \in CreatedSets(calls["initialize"].count) :
            SplitStep("initialize", executed, created, "refresh")

\* refreshGasPrice once getLatestSuiSystemState has answered: the cache is
\* set and, when the epoch has changed, revalidatePool reads the keys
InitializeRefreshedStep(answered, state) ==
    LET call == calls["initialize"]
        changed == gasPriceCache # Missing /\ Val(gasPriceCache).epoch # state.epoch
    IN  /\ call.pc = "refresh"
        /\ gasPriceCache' = IF answered THEN Some(state) ELSE gasPriceCache
        /\ initialized' = IF answered /\ ~(changed /\ MapKeys(coins) # <<>>)
                          THEN TRUE ELSE initialized
        /\ last' = IF answered /\ ~(changed /\ MapKeys(coins) # <<>>)
                   THEN [op |-> "initialize", out |-> "ok"] ELSE last
        /\ calls' = [calls EXCEPT !["initialize"] =
                       IF ~answered THEN Thrown(call, "Error")
                       ELSE IF changed /\ MapKeys(coins) # <<>>
                       THEN [call EXCEPT !.pc = "revalidate", !.ids = MapKeys(coins)]
                       ELSE [call EXCEPT !.pc = "done"]]
        /\ UNCHANGED <<coins, now, reval, outstanding, tasks, needsRevalidation,
                       minted, fixed>>

InitializeRefreshed ==
    \E answered \in BOOLEAN, state \in SystemStates :
        InitializeRefreshedStep(answered, state)

\* multiGetObjects has answered, or failed: refreshGasPrice swallows the
\* failure and sets needsRevalidation; initialize then sets the flag
InitializeRevalidatedStep(answered, objects) ==
    LET call == calls["initialize"]
    IN  /\ call.pc = "revalidate"
        /\ coins' = IF answered THEN revalidateLoop(coins, call.ids, objects, 1)
                    ELSE coins
        /\ needsRevalidation' = IF answered THEN needsRevalidation ELSE TRUE
        /\ initialized' = TRUE
        /\ last' = [op |-> "initialize", out |-> "ok"]
        /\ calls' = [CallsDisturbed("initialize") EXCEPT !["initialize"] =
                       [call EXCEPT !.pc = "done", !.ids = <<>>]]
        /\ UNCHANGED <<now, reval, outstanding, tasks, gasPriceCache,
                       minted, fixed>>

InitializeRevalidated ==
    \E answered \in BOOLEAN :
        \E objects \in [1 .. Len(calls["initialize"].ids) -> PriceResponses] :
            InitializeRevalidatedStep(answered, objects)

\* GasSponsor.replenish up to await fetchAllCoins
ReplenishStart ==
    LET call == calls["replenish"]
    IN  /\ call.pc = "idle"
        /\ MayStart
        /\ calls' = [calls EXCEPT !["replenish"] =
                       IF requireInitialized(initialized) # "none"
                       THEN Thrown(IdleCall, requireInitialized(initialized))
                       ELSE [IdleCall EXCEPT !.pc = "fetch",
                                             !.startKeys = KeySet(coins),
                                             !.before = Some(coins)]]
        /\ UNCHANGED <<coins, now, reval, last, outstanding, initialized, tasks,
                       gasPriceCache, needsRevalidation, minted, fixed>>

\* getCoins has answered, or failed
ReplenishFetchedStep(fetched, existingCoins) ==
    LET call == calls["replenish"]
        r == replenishFetched(coins, existingCoins)
    IN  /\ call.pc = "fetch"
        /\ coins' = IF fetched THEN r.coins ELSE coins
        /\ calls' = [CallsDisturbed("replenish") EXCEPT !["replenish"] =
                       IF ~fetched THEN Thrown(call, "Error")
                       ELSE [call EXCEPT
                               !.pc = IF r.count > 0 THEN "split" ELSE "done",
                               !.count = r.count]]
        /\ UNCHANGED <<now, reval, last, outstanding, initialized, tasks,
                       gasPriceCache, needsRevalidation, minted, fixed>>

ReplenishFetched ==
    \E fetched \in BOOLEAN, existingCoins \in Listings :
        ReplenishFetchedStep(fetched, existingCoins)

ReplenishSplit ==
    \E executed \in BOOLEAN :
        \E created \in CreatedSets(calls["replenish"].count) :
            SplitStep("replenish", executed, created, "done")

\* pool.close up to its first await, and with nothing to merge the rest of
\* pool.close as well
CloseStart ==
    LET call == calls["close"]
        r == closeStarted(coins, now)
    IN  /\ call.pc = "idle"
        /\ MayStart
        /\ coins' = r.coins
        /\ calls' = [CallsDisturbed("close") EXCEPT !["close"] =
                       [IdleCall EXCEPT !.pc = IF r.merge THEN "merge" ELSE "closed"]]
        /\ UNCHANGED <<now, reval, last, outstanding, initialized, tasks,
                       gasPriceCache, needsRevalidation, minted, fixed>>

\* the merge transaction has been built, signed and executed, or one of
\* the three has failed
CloseMergedStep(executed) ==
    LET call == calls["close"]
    IN  /\ call.pc = "merge"
        /\ coins' = IF executed THEN <<>> ELSE coins
        /\ calls' = [CallsDisturbed("close") EXCEPT !["close"] =
                       IF executed THEN [call EXCEPT !.pc = "closed"]
                       ELSE Thrown(call, "Error")]
        /\ UNCHANGED <<now, reval, last, outstanding, initialized, tasks,
                       gasPriceCache, needsRevalidation, minted, fixed>>

CloseMerged == \E executed \in BOOLEAN : CloseMergedStep(executed)

\* pool.close has resolved: this.initialized = false
CloseFinish ==
    /\ calls["close"].pc = "closed"
    /\ initialized' = FALSE
    /\ last' = [op |-> "close", out |-> "ok"]
    /\ calls' = [calls EXCEPT !["close"].pc = "done"]
    /\ UNCHANGED <<coins, now, reval, outstanding, tasks, gasPriceCache,
                   needsRevalidation, minted, fixed>>

\* the caller has the result or the error of its call
CallReturnStep(op) ==
    /\ calls[op].pc \in {"done", "error"}
    /\ calls' = [calls EXCEPT ![op] = IdleCall]
    /\ UNCHANGED <<coins, now, reval, last, outstanding, initialized, tasks,
                   gasPriceCache, needsRevalidation, minted, fixed>>

CallReturn == \E op \in {"initialize", "replenish", "close"} : CallReturnStep(op)

\* a sponsorTransaction call that got past the flag goes on to reserve a
\* coin, which it holds until the reservation expires
SponsorReserveStep(p, minBalance) ==
    /\ tasks[p].pc = "price"
    /\ coins' = reserve(coins, minBalance, now).coins
    /\ tasks' = [tasks EXCEPT ![p] = IdleTask]
    /\ calls' = CallsDisturbed("sponsorTransaction")
    /\ UNCHANGED <<now, reval, last, outstanding, initialized, gasPriceCache,
                   needsRevalidation, minted, fixed>>

SponsorReserve ==
    \E p \in Tasks, minBalance \in GasBudgets : SponsorReserveStep(p, minBalance)

\* no reservation lasts long enough to expire
NextLifecycle ==
    \/ InitializeStart
    \/ InitializeFetched
    \/ InitializeSplit
    \/ InitializeRefreshed
    \/ InitializeRevalidated
    \/ ReplenishStart
    \/ ReplenishFetched
    \/ ReplenishSplit
    \/ CloseStart
    \/ CloseMerged
    \/ CloseFinish
    \/ CallReturn
    \/ SponsorStart
    \/ SponsorReturn
    \/ SponsorReserve

SpecLifecycle == InitLifecycle /\ [][NextLifecycle]_vars

(***************************************************************************)
(* Actions of GasSponsor.getGasPrice, one per stretch between awaits; the  *)
(* clock runs in milliseconds                                              *)
(***************************************************************************)
Windows == {0, 500, DEFAULT_EPOCH_BOUNDARY_WINDOW, 5000, 40000}
Expirations == {10000, 50000}
Instants == {0, 4000, 9000, 9500, 10000, 10500, 12000, 16000, 41000, 50000, 60000}
ClockSkew == {0, 1}                   \* ms between two reads of Date.now()
EpochStates == {CachedPrice(1, 10000), CachedPrice(2, 50000)}

InitPrice ==
    /\ coins \in {<<>>, <<InitialEntry("A", targetCoinBalance)>>}
    /\ now = 0
    /\ reval = {}
    /\ last = [op |-> "initialize", out |-> "ok"]
    /\ outstanding = NoOutstanding
    /\ initialized = TRUE
    /\ tasks = NoTasks
    /\ gasPriceCache \in {Some(CachedPrice(1, e)) : e \in Expirations}
    /\ needsRevalidation \in BOOLEAN
    /\ epochBoundaryWindow \in Windows
    /\ calls = NoCalls
    /\ minted = {}
    /\ onPoolDepleted = Missing

\* time passes, up to one of the instants
PriceTickStep(t) ==
    /\ t > now
    /\ now' = t
    /\ UNCHANGED <<coins, reval, last, outstanding, initialized, tasks, admin>>

PriceTick == \E t \in Instants : PriceTickStep(t)

\* the call once the cache is tested, the clock read at now and at t2
Checked(call, t2) ==
    LET c == checkCache(gasPriceCache, epochBoundaryWindow, now, t2)
    IN  [call EXCEPT !.pc = c.next, !.wait = c.wait,
                     !.at = IF c.next = "sleep" THEN Some(t2) ELSE Missing]

\* getGasPrice up to its first await: the retry of a revalidation that
\* failed earlier, or the test of the cache
PriceStartStep(skew) ==
    LET call == calls["getGasPrice"]
        retry == needsRevalidation /\ MapKeys(coins) # <<>>
    IN  /\ call.pc = "idle"
        /\ needsRevalidation' = IF retry THEN needsRevalidation ELSE FALSE
        /\ calls' = [calls EXCEPT !["getGasPrice"] =
                       IF retry THEN [IdleCall EXCEPT !.pc = "retry",
                                                      !.ids = MapKeys(coins)]
                       ELSE Checked(IdleCall, now + skew)]
        /\ UNCHANGED <<coins, now, reval, last, outstanding, initialized, tasks,
                       gasPriceCache, minted, fixed>>

PriceStart == \E skew \in ClockSkew : PriceStartStep(skew)

\* multiGetObjects has answered the retry, or failed again; then the test
\* of the cache
PriceRetriedStep(answered, objects, skew) ==
    LET call == calls["getGasPrice"]
    IN  /\ call.pc = "retry"
        /\ coins' = IF answered THEN revalidateLoop(coins, call.ids, objects, 1)
                    ELSE coins
        /\ needsRevalidation' = IF answered THEN FALSE ELSE needsRevalidation
        /\ calls' = [calls EXCEPT !["getGasPrice"] =
                       Checked([call EXCEPT !.ids = <<>>], now + skew)]
        /\ UNCHANGED <<now, reval, last, outstanding, initialized, tasks,
                       gasPriceCache, minted, fixed>>

PriceRetried ==
    \E answered \in BOOLEAN, skew \in ClockSkew :
        \E objects \in [1 .. Len(calls["getGasPrice"].ids) -> PriceResponses] :
            PriceRetriedStep(answered, objects, skew)

\* the timer has fired: refreshGasPrice up to getLatestSuiSystemState
PriceWoken ==
    LET call == calls["getGasPrice"]
    IN  /\ call.pc = "sleep"
        /\ now >= Val(call.at) + Val(call.wait)
        /\ calls' = [calls EXCEPT !["getGasPrice"].pc = "refresh"]
        /\ UNCHANGED <<coins, now, reval, last, outstanding, initialized, tasks,
                       gasPriceCache, needsRevalidation, minted, fixed>>

\* getLatestSuiSystemState has answered, or failed
PriceRefreshedStep(answered, state) ==
    LET call == calls["getGasPrice"]
        changed == gasPriceCache # Missing /\ Val(gasPriceCache).epoch # state.epoch
    IN  /\ call.pc = "refresh"
        /\ gasPriceCache' = IF answered THEN Some(state) ELSE gasPriceCache
        /\ calls' = [calls EXCEPT !["getGasPrice"] =
                       IF ~answered THEN Thrown(call, "Error")
                       ELSE IF changed /\ MapKeys(coins) # <<>>
                       THEN [call EXCEPT !.pc = "revalidate", !.ids = MapKeys(coins)]
                       ELSE [call EXCEPT !.pc = "done"]]
        /\ UNCHANGED <<coins, now, reval, last, outstanding, initialized, tasks,
                       needsRevalidation, minted, fixed>>

PriceRefreshed ==
    \E answered \in BOOLEAN, state \in EpochStates :
        PriceRefreshedStep(answered, state)

\* (mutant) refreshGasPrice lets the failure of revalidatePool through
PriceRevalidatedRethrown(answered, objects) ==
    LET call == calls["getGasPrice"]
    IN  /\ call.pc = "revalidate"
        /\ coins' = IF answered THEN revalidateLoop(coins, call.ids, objects, 1)
                    ELSE coins
        /\ needsRevalidation' = needsRevalidation
        /\ calls' = [calls EXCEPT !["getGasPrice"] =
                       IF answered THEN [call EXCEPT !.pc = "done", !.ids = <<>>]
                       ELSE Thrown([call EXCEPT !.ids = <<>>], "Error")]
        /\ UNCHANGED <<now, reval, last, outstanding, initialized, tasks,
                       gasPriceCache, minted, fixed>>

\* multiGetObjects has answered after the epoch change, or failed
PriceRevalidatedStep(answered, objects) ==
    LET call == calls["getGasPrice"]
    IN  /\ call.pc = "revalidate"
        /\ coins' = IF answered THEN revalidateLoop(coins, call.ids, objects, 1)
                    ELSE coins
        /\ needsRevalidation' = IF answered THEN needsRevalidation ELSE TRUE
        /\ calls' = [calls EXCEPT !["getGasPrice"] =
                       [call EXCEPT !.pc = "done", !.ids = <<>>]]
        /\ UNCHANGED <<now, reval, last, outstanding, initialized, tasks,
                       gasPriceCache, minted, fixed>>

PriceRevalidated ==
    \E answered \in BOOLEAN :
        \E objects \in [1 .. Len(calls["getGasPrice"].ids) -> PriceResponses] :
            PriceRevalidatedStep(answered, objects)

\* the caller has the price or the error
PriceReturn ==
    /\ calls["getGasPrice"].pc \in {"done", "error"}
    /\ calls' = [calls EXCEPT !["getGasPrice"] = IdleCall]
    /\ UNCHANGED <<coins, now, reval, last, outstanding, initialized, tasks,
                   gasPriceCache, needsRevalidation, minted, fixed>>

NextPrice ==
    \/ PriceTick
    \/ PriceStart
    \/ PriceRetried
    \/ PriceWoken
    \/ PriceRefreshed
    \/ PriceRevalidated
    \/ PriceReturn

SpecPrice == InitPrice /\ [][NextPrice]_vars

(***************************************************************************)
(* Properties                                                              *)
(***************************************************************************)
ValidEffects == {e \in EffectsSet : ~effectsInvalid(e)}
RefOf(effects) == Val(Val(effects.gasObject).reference)
Entries(m) == {m[i] : i \in 1 .. Len(m)}
ReservedIn(m) == {e \in Entries(m) : e.status = "reserved"}
AvailableIn(m) == {e \in Entries(m) : e.status = "available"}

\* C1: two reservations of the same objectId never overlap: reserve never
\* hands out a coin whose earlier reservation has not been released,
\* reported or swept.
C1_NoOverlappingReservation == \A id \in Ids : outstanding[id] <= 1

\* reserve has just handed out a coin while the other coin is held too
C1_Witness ==
    /\ last = [op |-> "reserve", out |-> "coin"]
    /\ \A id \in Ids : outstanding[id] = 1
    /\ Cardinality(ReservedIn(coins)) = Cardinality(Ids)

\* C4: recycleExpired(t) deletes exactly the Reserved entries with
\* t - reservedAt > reservationTimeoutMs, returns their objectIds, leaves
\* every other entry as it was, and leaves no such entry behind.
C4_Overdue(e, t) ==
    e.status = "reserved" /\ e.reservedAt # NoTime
    /\ Val(e.reservedAt) + reservationTimeoutMs < t

C4_SweepDeletesExactlyExpired ==
    \A t \in Times :
        LET r == recycleExpired(coins, t)
            overdue == {e \in Entries(coins) : C4_Overdue(e, t)}
        IN  /\ Entries(r.coins) = Entries(coins) \ overdue
            /\ Range(r.expired) = {e.objectId : e \in overdue}
            /\ Len(r.expired) = Cardinality(overdue)
            /\ Len(r.coins) = Len(coins) - Cardinality(overdue)
            /\ \A e \in Entries(r.coins) : ~C4_Overdue(e, t)
            /\ \A e \in overdue : e.objectId \notin KeySet(r.coins)

\* a sweep has just deleted an expired reservation and kept another entry
C4_Witness ==
    /\ last = [op |-> "recycleExpired", out |-> "swept"]
    /\ Len(coins) = 1

\* C5: for the reservation of any Reserved entry and any effects,
\* reportExecution(reservation, effects) twice leaves the pool as calling it
\* once does.
C5_ReportIdempotent ==
    \A id \in Ids, e \in EffectsSet :
        (\E c \in Entries(coins) : c.objectId = id /\ c.status = "reserved") =>
            LET once == reportExecution(coins, [objectId |-> id], e).coins
            IN  reportExecution(once, [objectId |-> id], e).coins = once

\* C6: reserved + available = total, the counts are the numbers of Reserved
\* and Available entries, and no objectId is held by two entries.
C6_StatsAddUpAndIdsUnique ==
    LET s == getStats(coins)
    IN  /\ s.reserved + s.available = s.total
        /\ s.total = Len(coins)
        /\ s.reserved = Cardinality({i \in 1 .. Len(coins) : coins[i].status = "reserved"})
        /\ s.available = Cardinality({i \in 1 .. Len(coins) : coins[i].status = "available"})
        /\ \A i, j \in 1 .. Len(coins) :
              coins[i].objectId = coins[j].objectId => i = j

\* a pool holding a Reserved and an Available entry
C6_Witness ==
    /\ getStats(coins).reserved = 1
    /\ getStats(coins).available = 1
    /\ last.op \in {"reserve", "release", "reportExecution", "recycleExpired"}

\* C7: every entry of the pool has balance >= minCoinBalance.
C7_BalanceFloor == \A e \in Entries(coins) : e.balance >= minCoinBalance

\* C8: effects naming another gas coin remove the tracked entry and nothing
\* else, and the report raises no error.
C8_MisroutedReportRemovesEntry ==
    \A id \in KeySet(coins), e \in ValidEffects :
        RefOf(e).objectId # id =>
            LET r == reportExecution(coins, [objectId |-> id], e)
            IN  /\ r.error = "none"
                /\ id \notin KeySet(r.coins)
                /\ Len(r.coins) = Len(coins) - 1
                /\ Entries(r.coins) = {x \in Entries(coins) : x.objectId # id}
                /\ r.coins = updateFromEffects(coins, e, id)

\* a misrouted report has just removed one coin and left the other
C8_Witness ==
    /\ last = [op |-> "reportExecution", out |-> "mismatch"]
    /\ Len(coins) = 1

\* C9: with matching objectId the coin's balance becomes
\* max(0, balance - (computation + storage - rebate + fee)); at or above
\* minCoinBalance the entry is Available at the effects' reference with that
\* balance and no reservedAt, below it the entry is removed.
C9_Consumed(g) ==
    BigInt(g.computationCost) + BigInt(g.storageCost) - BigInt(g.storageRebate)
    + (IF g.nonRefundableStorageFee = Missing THEN 0
       ELSE BigInt(Val(g.nonRefundableStorageFee)))

C9_NewBalance(old, g) ==
    IF old - C9_Consumed(g) > 0 THEN old - C9_Consumed(g) ELSE 0

C9_UpdateFromEffectsResult ==
    \A id \in KeySet(coins), e \in ValidEffects :
        RefOf(e).objectId = id =>
            LET old == MapGet(coins, id)
                new == C9_NewBalance(old.balance, Val(e.gasUsed))
                res == updateFromEffects(coins, e, id)
            IN  /\ \A x \in Entries(coins) : x.objectId # id => x \in Entries(res)
                /\ IF new >= minCoinBalance
                   THEN /\ Len(res) = Len(coins)
                        /\ [objectId |-> id, version |-> RefOf(e).version,
                            digest |-> RefOf(e).digest, balance |-> new,
                            status |-> "available", reservedAt |-> NoTime]
                              \in Entries(res)
                   ELSE /\ id \notin KeySet(res)
                        /\ Len(res) = Len(coins) - 1

\* a report has just put a coin back at the effects' reference
C9_Witness ==
    /\ last = [op |-> "reportExecution", out |-> "kept"]
    /\ \E e \in AvailableIn(coins) : e.version = NewVersion

\* C10: revalidatePool leaves every Reserved entry as it is, whatever the
\* network answers for it, and a later report for it completes without
\* error, with the result it would have had without the revalidation.
C10_RevalidateSkipsReserved ==
    \A ids \in reval :
        \A objects \in [1 .. Len(ids) -> ObjectResponses] :
            LET res == revalidateLoop(coins, ids, objects, 1)
            IN  \A i \in 1 .. Len(coins) :
                    coins[i].status = "reserved" =>
                        /\ \E j \in 1 .. Len(res) : res[j] = coins[i]
                        /\ \A e \in ValidEffects :
                              LET id == coins[i].objectId
                                  r == reportExecution(res, [objectId |-> id], e)
                                  direct == updateFromEffects(coins, e, id)
                              IN  /\ r.error = "none"
                                  /\ MapHas(r.coins, id) = MapHas(direct, id)
                                  /\ MapHas(direct, id) =>
                                        MapGet(r.coins, id) = MapGet(direct, id)

\* a revalidation has just changed the pool around a Reserved entry
C10_Witness ==
    /\ last = [op |-> "revalidatePool", out |-> "changed"]
    /\ ReservedIn(coins) # {}

(***************************************************************************)
(* Properties of sponsorTransaction                                        *)
(***************************************************************************)
InFlight == {"price", "revalidate", "validated", "build", "sign"}

\* in this step caller p's sponsorTransaction throws, holding a reservation
FailsAfterReserve(p) ==
    /\ tasks[p].pc \in InFlight
    /\ tasks'[p].pc = "error"
    /\ tasks'[p].coin # Missing

IsAvailableIn(m, id) == \E e \in Entries(m) : e.objectId = id /\ e.status = "available"

\* C2 as stated: whenever sponsorTransaction fails after its reservation, the
\* coin it reserved is Available again, and the pool's total, available and
\* reserved counts are what they were before the call (compared wherever
\* nothing but the call itself has touched the pool since).
C2_FailedCallRestoresCounts ==
    [][\A p \in Tasks :
          FailsAfterReserve(p) =>
              /\ IsAvailableIn(coins', Val(tasks'[p].coin).objectId)
              /\ tasks'[p].entry # Missing =>
                    Counts(getStats(coins')) = Val(tasks'[p].entry)]_vars

\* C2, amended: whenever sponsorTransaction fails after its reservation and
\* nothing but the call's own reserve and release has changed the pool since
\* the call began, the coin it reserved is Available again, the available
\* count is what it was before the call, and the total and reserved counts
\* are what they were before the call less the expired reservations that the
\* call's reserve swept.
C2_FailedCallReleasesCoin ==
    [][\A p \in Tasks :
          (FailsAfterReserve(p) /\ tasks'[p].entry # Missing) =>
              /\ IsAvailableIn(coins', Val(tasks'[p].coin).objectId)
              /\ getStats(coins').available = Val(tasks'[p].entry).available
              /\ getStats(coins').total =
                    Val(tasks'[p].entry).total - tasks'[p].swept
              /\ getStats(coins').reserved =
                    Val(tasks'[p].entry).reserved - tasks'[p].swept]_vars

\* a call has failed at the signer, after its reserve swept an expired
\* reservation, and its coin is back
C2_Witness ==
    \E p \in Tasks :
        /\ tasks[p].pc = "error"
        /\ tasks[p].error = "SIGN_FAILED"
        /\ tasks[p].coin # Missing
        /\ tasks[p].entry # Missing
        /\ tasks[p].swept > 0
        /\ IsAvailableIn(coins, Val(tasks[p].coin).objectId)

\* the command names the gas coin in one of its argument positions
NamesGasCoin(command) ==
    \/ /\ command.kind = "SplitCoins"
       /\ (command.coin = GasCoin \/ GasCoin \in Range(command.amounts))
    \/ /\ command.kind = "TransferObjects"
       /\ (GasCoin \in Range(command.objects) \/ command.address = GasCoin)
    \/ /\ command.kind = "MergeCoins"
       /\ (command.destination = GasCoin \/ GasCoin \in Range(command.sources))
    \/ /\ command.kind = "MoveCall"
       /\ GasCoin \in Range(command.arguments)
    \/ /\ command.kind = "MakeMoveVec"
       /\ GasCoin \in Range(command.elements)
    \/ /\ command.kind = "Upgrade"
       /\ command.ticket = GasCoin

AnyNamesGasCoin(commands) == \E i \in 1 .. Len(commands) : NamesGasCoin(commands[i])

AllowsGasCoin(policy) == policy # Missing /\ Val(policy).allowGasCoinUsage = Some(TRUE)

C11_ReplenishKeepsEntries ==
    [][(calls["replenish"].pc \in {"fetch", "split"}
          /\ calls'["replenish"].pc # calls["replenish"].pc)
       => \A i \in 1 .. Len(coins) :
            coins[i].objectId \in calls["replenish"].startKeys
            => i <= Len(coins') /\ coins'[i] = coins[i]]_vars

\* replenish has come back having added a coin next to a Reserved coin
\* that was tracked when it started
C11_Witness ==
    /\ calls["replenish"].pc = "done"
    /\ \E i, j \in 1 .. Len(coins) :
        /\ coins[i].objectId \in calls["replenish"].startKeys
        /\ coins[i].status = "reserved"
        /\ coins[j].objectId \notin calls["replenish"].startKeys

\* C12 (as stated): once replenish has failed, and no other operation has
\* changed the pool since the call started, the pool holds exactly the
\* entries it held before the call.
C12_FailedReplenishUntouched ==
    (calls["replenish"].pc = "error" /\ calls["replenish"].before # Missing)
    => coins = Val(calls["replenish"].before)

\* C12 (amended): once replenish has failed, and no other operation has
\* changed the pool since the call started, every entry the pool held
\* before the call is where it was and as it was; after a failed listing
\* there is nothing else, after a failed split there are in addition the
\* right-sized listed coins that were inserted before the split, Available.
C12_FailedReplenishKeepsEntries ==
    (calls["replenish"].pc = "error" /\ calls["replenish"].before # Missing)
    => LET before == Val(calls["replenish"].before)
       IN  /\ Len(before) <= Len(coins)
           /\ SubSeq(coins, 1, Len(before)) = before
           /\ calls["replenish"].count = 0 => coins = before
           /\ Len(coins) <= targetPoolSize
           /\ \A i \in Len(before) + 1 .. Len(coins) :
                /\ coins[i].status = "available"
                /\ isUsable(coins[i].balance)
                /\ coins[i].objectId \notin calls["replenish"].startKeys

\* the split of a replenish has failed after a listed coin was inserted
C12_Witness ==
    /\ calls["replenish"].pc = "error"
    /\ calls["replenish"].before # Missing
    /\ calls["replenish"].count > 0
    /\ Len(coins) > Len(Val(calls["replenish"].before))

\* C13: initialize does not complete when the listing holds neither a
\* usable coin nor a source coin.
C13_InitializeNeedsFunds ==
    calls["initialize"].pc = "done" => calls["initialize"].funded

reserveThenRelease(m, minBalance, t) ==
    release(reserve(m, minBalance, t).coins,
            Val(reserve(m, minBalance, t).coin).objectId)

MinBalances == {Missing, Some(1), Some(MaxBalance)}

\* C14 (as stated): in every pool state, a reserve that returns a coin,
\* followed at once by the release of that coin, leaves total, available,
\* reserved and totalBalance what they were before the reserve.
C14_ReserveReleaseRestoresStats ==
    \A minBalance \in MinBalances :
        reserve(coins, minBalance, now).coin # Missing
        => getStats(reserveThenRelease(coins, minBalance, now)) = getStats(coins)

\* C14 (amended): in every pool state, a reserve that returns a coin,
\* followed at once by the release of that coin, leaves the stats of the
\* pool without its expired reservations: available is what it was, total,
\* reserved and totalBalance are what they were less the expired
\* reservations, and with no reservation expired all four are restored.
C14_ReserveReleaseRestoresUnexpired ==
    \A minBalance \in MinBalances :
        reserve(coins, minBalance, now).coin # Missing
        => LET after == getStats(reserveThenRelease(coins, minBalance, now))
               swept == recycleExpired(coins, now)
           IN  /\ after = getStats(swept.coins)
               /\ after.available = getStats(coins).available
               /\ after.total = getStats(coins).total - Len(swept.expired)
               /\ after.reserved = getStats(coins).reserved - Len(swept.expired)
               /\ swept.expired = <<>> => after = getStats(coins)

\* the pool holds an expired reservation next to a coin that a reserve
\* returns, and the latest operation on it was a release
C14_Witness ==
    /\ \E i \in 1 .. Len(coins) : IsExpired(coins[i], now)
    /\ reserve(coins, Missing, now).coin # Missing
    /\ last.op = "release"

(***************************************************************************)
(* Properties of the onPoolDepleted callback and of the budget cap         *)
(***************************************************************************)
IsReservedIn(m, id) == \E e \in Entries(m) : e.objectId = id /\ e.status = "reserved"

\* the step in which caller p reserves, or finds nothing to reserve
ReserveStepOf(p) ==
    /\ tasks[p].pc \in {"price", "validated"}
    /\ tasks'[p].pc \in {"build", "error"}
    /\ (tasks'[p].coin # Missing \/ tasks'[p].error = "POOL_EXHAUSTED")

\* the Available coins a reserve at time t leaves when it takes one
LeftAvailable(m, t) == getStats(recycleExpired(m, t).coins).available - 1

\* C16: with a callback registered, the step in which a call reserves
\* invokes onPoolDepleted once when reserve returns null (the call fails
\* with POOL_EXHAUSTED), once when the reservation leaves no coin
\* Available, and not at all otherwise; no other step of the call invokes
\* it, so no call invokes it twice.
C16_DepletedNotifiedOnce ==
    [][onPoolDepleted # Missing =>
        \A p \in Tasks :
          /\ ReserveStepOf(p)
             => Len(tasks'[p].notified) =
                  (IF tasks'[p].coin = Missing THEN 1
                   ELSE IF LeftAvailable(coins, now) = 0 THEN 1 ELSE 0)
          /\ (~ReserveStepOf(p) /\ tasks'[p].pc # "idle")
             => tasks'[p].notified = tasks[p].notified
          /\ Len(tasks'[p].notified) <= 1]_vars

\* a call is waiting for tx.build with the last Available coin reserved and
\* the callback invoked once
C16_Witness ==
    \E p \in Tasks :
        /\ tasks[p].pc = "build"
        /\ Len(tasks[p].notified) = 1
        /\ getStats(coins).available = 0
        /\ IsReservedIn(coins, Val(tasks[p].coin).objectId)

\* C17: in the step in which the callback throws, a call that found the
\* pool exhausted fails with POOL_EXHAUSTED, and a call that took the last
\* coin goes on to tx.build with the coin Reserved unless its own kind
\* bytes are turned down (BUILD_FAILED, or POLICY_VIOLATION for a body that
\* names the gas coin).
C17_CallbackErrorSwallowed ==
    [][\A p \in Tasks :
         (ReserveStepOf(p) /\ tasks'[p].notified = <<"threw">>)
         => IF tasks'[p].coin = Missing
            THEN tasks'[p].pc = "error" /\ tasks'[p].error = "POOL_EXHAUSTED"
            ELSE \/ /\ tasks'[p].pc = "build"
                    /\ IsReservedIn(coins', Val(tasks'[p].coin).objectId)
                 \/ /\ tasks'[p].error = "BUILD_FAILED"
                    /\ tasks'[p].kind = Missing
                 \/ /\ tasks'[p].error = "POLICY_VIOLATION"
                    /\ tasks'[p].kind # Missing
                    /\ AnyNamesGasCoin(Val(tasks'[p].kind).commands)
                    /\ ~AllowsGasCoin(tasks'[p].policy)]_vars

\* the callback has thrown in a call that took the last coin, and the call
\* has its signed transaction
C17_Witness ==
    \E p \in Tasks :
        /\ tasks[p].pc = "ok"
        /\ tasks[p].notified = <<"threw">>
        /\ IsReservedIn(coins, Val(tasks[p].result).reservation.objectId)

\* the callback has thrown in a call that found the pool exhausted
C17_WitnessExhausted ==
    \E p \in Tasks :
        /\ tasks[p].pc = "error"
        /\ tasks[p].error = "POOL_EXHAUSTED"
        /\ tasks[p].notified = <<"threw">>

\* C18: when the policy in effect sets maxBudgetPerTx, a call that returns
\* returns gasBudget <= maxBudgetPerTx, with the budget given or not; in
\* the step in which the built transaction carries a budget above the cap
\* the call fails with POLICY_VIOLATION and its coin, if the pool still
\* tracks it, is Available.
C18_BudgetWithinCap ==
    [][\A p \in Tasks :
         LET cap == maxBudgetOf(tasks[p].policy)
         IN  cap # Missing =>
               /\ (tasks[p].pc = "sign" /\ tasks'[p].pc = "ok")
                  => Val(tasks'[p].result).gasBudget <= Val(cap)
               /\ \A builtBudget \in BuiltBudgets(tasks[p]) :
                    (builtBudget > Val(cap)
                       /\ SponsorSignedStep(p, TRUE, TRUE, builtBudget))
                    => /\ tasks'[p].pc = "error"
                       /\ tasks'[p].error = "POLICY_VIOLATION"
                       /\ ~IsReservedIn(coins', Val(tasks[p].coin).objectId)
                       /\ MapHas(coins, Val(tasks[p].coin).objectId)
                          => IsAvailableIn(coins', Val(tasks[p].coin).objectId)]_vars

\* under a cap, a call has returned with a budget that is the cap itself
C18_Witness ==
    \E p \in Tasks :
        /\ tasks[p].pc = "ok"
        /\ maxBudgetOf(tasks[p].policy) # Missing
        /\ Val(tasks[p].result).gasBudget = Val(maxBudgetOf(tasks[p].policy))

\* C20: every call of sponsorTransaction that fails fails with one of the
\* codes of GasStationErrorCode.
GasStationErrorCode ==
    {"POOL_EXHAUSTED", "POOL_NOT_INITIALIZED", "POLICY_VIOLATION", "BUILD_FAILED",
     "SIGN_FAILED", "INVALID_EFFECTS"}

C20_FailuresAreTyped ==
    \A p \in Tasks : tasks[p].pc = "error" => tasks[p].error \in GasStationErrorCode

(***************************************************************************)
(* Properties of getGasPrice                                               *)
(***************************************************************************)
\* C19 (as stated): a call that finds the cache within the boundary window
\* sleeps for at least epochBoundaryWindow ms and at most
\* MAX_EPOCH_BOUNDARY_WAIT ms.
C19_WaitAtLeastWindow ==
    calls["getGasPrice"].pc = "sleep"
    => /\ Val(calls["getGasPrice"].wait) >= epochBoundaryWindow
       /\ Val(calls["getGasPrice"].wait) <= MAX_EPOCH_BOUNDARY_WAIT

\* C19 (amended): a call that finds the cache within the boundary window
\* sleeps for min(MAX_EPOCH_BOUNDARY_WAIT, max(1000, expiration +
\* epochBoundaryWindow - now)) ms: at least 1000 and at most
\* MAX_EPOCH_BOUNDARY_WAIT, and at least epochBoundaryWindow when the
\* window is at most 1000, or when the clock has not passed the expiration
\* and the window is at most MAX_EPOCH_BOUNDARY_WAIT.
C19_WaitWithinBounds ==
    calls["getGasPrice"].pc = "sleep"
    => LET wait == Val(calls["getGasPrice"].wait)
           at == Val(calls["getGasPrice"].at)
           expiration == Val(gasPriceCache).expiration
       IN  /\ wait = Min(MAX_EPOCH_BOUNDARY_WAIT,
                         Max(1000, expiration + epochBoundaryWindow - at))
           /\ wait >= 1000
           /\ wait <= MAX_EPOCH_BOUNDARY_WAIT
           /\ epochBoundaryWindow <= 1000 => wait >= epochBoundaryWindow
           /\ (at <= expiration /\ epochBoundaryWindow <= MAX_EPOCH_BOUNDARY_WAIT)
              => wait >= epochBoundaryWindow
           /\ at >= expiration - epochBoundaryWindow

\* a call sleeps for less than the window it was constructed with, the clock
\* having passed the expiration
C19_Witness ==
    /\ calls["getGasPrice"].pc = "sleep"
    /\ Val(calls["getGasPrice"].at) > Val(gasPriceCache).expiration
    /\ Val(calls["getGasPrice"].wait) < epochBoundaryWindow
    /\ Val(calls["getGasPrice"].wait) = MinBoundaryWait


(***************************************************************************)
(* Shutdown, reports and timeouts                                          *)
(***************************************************************************)

\* C21: a close call that has ended, with or without an error, has left the
\* pool empty (total 0) and the initialized flag false.
C21_CloseAlwaysClears ==
    calls["close"].pc \in {"done", "error"}
        => /\ getStats(coins).total = 0
           /\ ~initialized

\* C22: for each entry of the pool, reportExecution with effects that lack
\* gasObject, gasObject.reference or gasUsed fails with INVALID_EFFECTS and
\* returns the pool as it was: the entry keeps its status, reservedAt,
\* reference and balance.
C22_InvalidEffectsLeavePool ==
    \A id \in Ids, e \in EffectsSet :
        effectsInvalid(e) =>
            LET r == reportExecution(coins, [objectId |-> id], e)
            IN  /\ r.error = "INVALID_EFFECTS"
                /\ r.coins = coins
                /\ MapHas(coins, id) => MapGet(r.coins, id) = MapGet(coins, id)

\* a coin is Reserved, and the report of its reservation with each of the
\* three incomplete effects is refused
C22_Witness ==
    \E id \in Ids :
        /\ IsReservedIn(coins, id)
        /\ last.op = "reserve"
        /\ Cardinality({e \in EffectsSet : effectsInvalid(e)}) = 3
        /\ \A e \in EffectsSet :
              effectsInvalid(e)
                  => reportExecution(coins, [objectId |-> id], e).error = "INVALID_EFFECTS"

Callers == {"t1", "t2"}

\* the request of an overlapping call: a valid sender, no gasBudget, no
\* policy, a body that parses and does not name the gas coin
PlainSender == <<"0", "x", "2">>
PlainKind == KindBytes(<<MoveCall(<<Input, Result>>), Publish, Intent>>)

\* what a client reports for the coin of its handle: nothing consumed
HandleEffects(id) ==
    {[gasObject |-> Some([reference |->
                            Some([objectId |-> id, version |-> NewVersion,
                                  digest |-> NewVersion])]),
      gasUsed |-> Some(g)] :
        g \in {GasSummary(<<0>>, <<0>>, <<0>>, Missing)}}

\* what getCoins lists while the calls overlap: the coins of the pool that
\* no transaction has consumed
OverlapListings == {<<Listed("A", <<2>>)>>}

InitOverlap ==
    /\ coins = <<InitialEntry("A", targetCoinBalance),
                 InitialEntry("B", targetCoinBalance)>>
    /\ now = 0
    /\ reval = {}
    /\ last = [op |-> "initialize", out |-> "ok"]
    /\ outstanding = NoOutstanding
    /\ initialized = TRUE
    /\ tasks = [p \in Callers |-> IdleTask]
    /\ gasPriceCache = InitialCache
    /\ needsRevalidation = FALSE
    /\ epochBoundaryWindow = DefaultWindow
    /\ calls = NoCalls
    /\ minted = {}
    /\ onPoolDepleted = Missing

OverlapStart == \E p \in Callers : SponsorStartStep(p, PlainSender)

OverlapRevalidateStart == \E p \in Callers : PriceRevalidateStartStep(p)

OverlapRevalidateFinish ==
    \E p \in Callers, ids \in reval :
        \E objects \in [1 .. Len(ids) -> PriceResponses] :
            PriceRevalidateFinishStep(p, ids, TRUE, objects)

OverlapPriced ==
    \E p \in Callers : SponsorPricedStep(p, TRUE, Missing, Missing, PlainKind, FALSE)

OverlapBuilt == \E p \in Callers, built \in BOOLEAN : SponsorBuiltStep(p, built)

OverlapSigned ==
    \E p \in Callers, signed \in BOOLEAN :
        SponsorSignedStep(p, signed, TRUE,
                          budgetToSet(tasks[p].gasBudget, tasks[p].policy))

OverlapReturn == \E p \in Callers : SponsorReturnStep(p)

\* the client of call p reports with the handle it was given, and keeps
\* the handle
HandleReportStep(p, effects) ==
    /\ tasks[p].pc = "ok"
    /\ coins' = reportExecution(coins, Val(tasks[p].result).reservation, effects).coins
    /\ tasks' = OthersDisturbed(p)
    /\ UNCHANGED <<now, reval, last, outstanding, initialized, admin>>

HandleReport ==
    \E p \in Callers :
        /\ tasks[p].pc = "ok"
        /\ \E effects \in HandleEffects(Val(tasks[p].result).reservation.objectId) :
              HandleReportStep(p, effects)

\* replenish once getCoins has answered: with no source coin in the listing
\* nothing is awaited after it
ReplenishListedStep(existingCoins) ==
    /\ requireInitialized(initialized) = "none"
    /\ replenishFetched(coins, existingCoins).count = 0
    /\ coins' = replenishFetched(coins, existingCoins).coins
    /\ tasks' = OthersDisturbed("replenish")
    /\ UNCHANGED <<now, reval, last, outstanding, initialized, admin>>

ReplenishListed == \E existingCoins \in OverlapListings : ReplenishListedStep(existingCoins)

NextOverlap ==
    \/ Tick
    \/ OverlapStart
    \/ OverlapRevalidateStart
    \/ OverlapRevalidateFinish
    \/ OverlapPriced
    \/ OverlapBuilt
    \/ OverlapSigned
    \/ OverlapReturn
    \/ HandleReport
    \/ ReplenishListed

SpecOverlap == InitOverlap /\ [][NextOverlap]_vars


(***************************************************************************)
(* Calls that overlap                                                      *)
(***************************************************************************)
\* the entry that the pool m holds for a reservation handle
HeldBy(m, reservation) ==
    /\ MapHas(m, reservation.objectId)
    /\ MapGet(m, reservation.objectId).status = "reserved"
    /\ MapGet(m, reservation.objectId).reservedAt = At(reservation.reservedAt)

\* C24: at the step in which sponsorTransaction returns its result, the
\* pool tracks the coin named by the returned reservation, Reserved, with
\* the reservedAt of the handle.
C24_ReturnedCoinIsHeld ==
    [][\A p \in DOMAIN tasks :
          (tasks[p].pc = "sign" /\ tasks'[p].pc = "ok")
              => HeldBy(coins', Val(tasks'[p].result).reservation)]_vars


\* C25: when a sponsorTransaction call fails after its reservation, an entry
\* with the objectId of its coin that is Reserved by another invocation (its
\* reservedAt is not the one of the call's snapshot) stays as it is.
C25_ForeignReservationKept ==
    [][\A p \in DOMAIN tasks :
          (tasks[p].pc \in {"build", "sign"} /\ tasks'[p].pc = "error")
              => LET id == Val(tasks[p].coin).objectId
                 IN  (/\ IsReservedIn(coins, id)
                      /\ MapGet(coins, id).reservedAt # Val(tasks[p].coin).reservedAt)
                         => /\ MapHas(coins', id)
                            /\ MapGet(coins', id) = MapGet(coins, id)]_vars


\* C26: a report with a handle whose reservedAt is not the reservedAt of the
\* entry, which is Reserved under a newer reservation, leaves the pool as it
\* is.
C26_StaleHandleIgnored ==
    \A p \in DOMAIN tasks :
        tasks[p].pc = "ok" =>
            LET handle == Val(tasks[p].result).reservation
            IN  (/\ IsReservedIn(coins, handle.objectId)
                 /\ MapGet(coins, handle.objectId).reservedAt # At(handle.reservedAt))
                    => \A effects \in HandleEffects(handle.objectId) :
                          reportExecution(coins, handle, effects).coins = coins


\* C27: revalidatePool is atomic: from the step in which it reads the
\* tracked ids to the step in which it writes what it fetched, no other
\* operation changes the pool.
C27_RevalidateAtomic ==
    [][(reval # {} /\ reval' = reval) => coins' = coins]_vars


(***************************************************************************)
(* sponsorTransaction with and without a gasBudget, under no policy and    *)
(* under a policy whose cap is above the balance of a right-sized coin     *)
(***************************************************************************)
BudgetPolicies == {Missing, Some(Policy(Some(MaxBalance), Some(FALSE)))}

InitBudget ==
    /\ coins \in InitialPools
    /\ now = 0
    /\ reval = {}
    /\ last = [op |-> "initialize", out |-> "ok"]
    /\ outstanding = NoOutstanding
    /\ initialized = TRUE
    /\ tasks = NoTasks
    /\ gasPriceCache = InitialCache
    /\ needsRevalidation = FALSE
    /\ epochBoundaryWindow = DefaultWindow
    /\ calls = NoCalls
    /\ minted = {}
    /\ onPoolDepleted = Missing

BudgetStart == \E p \in Tasks : SponsorStartStep(p, PlainSender)

BudgetPriced ==
    \E p \in Tasks, gasBudget \in GasBudgets, policy \in BudgetPolicies :
        SponsorPricedStep(p, TRUE, gasBudget, policy, PlainKind, FALSE)

BudgetValidated == \E p \in Tasks : SponsorValidatedStep(p, PlainKind, FALSE)

\* the builder keeps the budget that step 6 set
BudgetSigned ==
    \E p \in Tasks, signed \in BOOLEAN :
        SponsorSignedStep(p, signed, TRUE,
                          budgetToSet(tasks[p].gasBudget, tasks[p].policy))

NextBudget ==
    \/ BudgetStart
    \/ BudgetPriced
    \/ BudgetValidated
    \/ SponsorBuilt
    \/ BudgetSigned
    \/ SponsorReturn
    \/ ClientReport

SpecBudget == InitBudget /\ [][NextBudget]_vars

\* C28: at the step in which sponsorTransaction returns its result, the
\* balance the pool tracks for the reserved coin is at least the gasBudget
\* of the result.
C28_BalanceCoversBudget ==
    [][\A p \in DOMAIN tasks :
          (tasks[p].pc = "sign" /\ tasks'[p].pc = "ok")
              => LET result == Val(tasks'[p].result)
                 IN  MapHas(coins', result.reservation.objectId)
                        => MapGet(coins', result.reservation.objectId).balance
                              >= result.gasBudget]_vars


(***************************************************************************)
(* replenish calls that overlap: each one started by an operator or by an  *)
(* onPoolDepleted callback, with callers reserving coins in between        *)
(***************************************************************************)
Replenishers == {"r1", "r2"}

\* the chain moves the source coin to a new version with every split that
\* executes
SourceVersion == 1 + Cardinality(minted)

RECURSIVE ListAll(_)
ListAll(ids) ==
    IF ids = {} THEN <<>>
    ELSE LET id == CHOOSE x \in ids : TRUE
         IN  <<Listed(id, <<targetCoinBalance>>)>> \o ListAll(ids \ {id})

\* what getCoins lists: coin A, which no transaction consumes, the source
\* coin at its current version, and the coins the splits have created
ChainListing ==
    <<Listed("A", <<targetCoinBalance>>),
      [Listed("S", <<5>>) EXCEPT !.version = SourceVersion,
                                 !.digest = SourceVersion]>>
    \o ListAll(minted)

InitReplenish ==
    /\ coins \in {<<>>, <<InitialEntry("A", targetCoinBalance)>>}
    /\ now = 0
    /\ reval = {}
    /\ last = [op |-> "initialize", out |-> "ok"]
    /\ outstanding = NoOutstanding
    /\ initialized = TRUE
    /\ tasks = NoTasks
    /\ gasPriceCache = InitialCache
    /\ needsRevalidation = FALSE
    /\ epochBoundaryWindow = DefaultWindow
    /\ calls = [op \in Replenishers |-> IdleCall]
    /\ minted = {}
    /\ onPoolDepleted = Missing

\* GasSponsor.replenish up to await fetchAllCoins
ReplenishCallStep(op) ==
    /\ calls[op].pc = "idle"
    /\ calls' = [calls EXCEPT ![op] =
                   IF requireInitialized(initialized) # "none"
                   THEN Thrown(IdleCall, requireInitialized(initialized))
                   ELSE [IdleCall EXCEPT !.pc = "fetch"]]
    /\ UNCHANGED <<coins, now, reval, last, outstanding, initialized, tasks,
                   gasPriceCache, needsRevalidation, minted, fixed>>

ReplenishCall == \E op \in Replenishers : ReplenishCallStep(op)

\* getCoins has answered call op: the usable coins are inserted, and ids
\* holds the sourceRefs that the split transaction takes as gas payment
ReplenishListingStep(op, existingCoins) ==
    LET call == calls[op]
        r == replenishFetched(coins, existingCoins)
        c == classify(existingCoins, KeySet(coins), <<>>, <<>>)
    IN  /\ call.pc = "fetch"
        /\ coins' = r.coins
        /\ calls' = [calls EXCEPT ![op] =
                       [call EXCEPT !.pc = IF r.count > 0 THEN "split" ELSE "done",
                                    !.count = r.count,
                                    !.ids = IF r.count > 0 THEN c.sourceRefs ELSE <<>>]]
        /\ UNCHANGED <<now, reval, last, outstanding, initialized, tasks,
                       gasPriceCache, needsRevalidation, minted, fixed>>

ReplenishListing == \E op \in Replenishers : ReplenishListingStep(op, ChainListing)

\* the chain executes a split only if its gas payment is at the current
\* version of the source coin
ReplenishSplitting ==
    \E op \in Replenishers, executed \in BOOLEAN :
        \E created \in CreatedSets(calls[op].count) :
            /\ executed => \A i \in 1 .. Len(calls[op].ids) :
                              calls[op].ids[i].version = SourceVersion
            /\ SplitStep(op, executed, created, "done")

ReplenishReturn == \E op \in Replenishers : CallReturnStep(op)

ReplenishReserve == OtherCallerStep(Missing)

NextReplenish ==
    \/ Tick
    \/ ReplenishCall
    \/ ReplenishListing
    \/ ReplenishSplitting
    \/ ReplenishReturn
    \/ ReplenishReserve

SpecReplenish == InitReplenish /\ [][NextReplenish]_vars

\* C29: the pool never tracks more than targetPoolSize coins, and no two
\* split transactions that are pending at the same time take the same
\* reference of a source coin as gas payment.
C29_ReplenishBounded ==
    /\ getStats(coins).total <= targetPoolSize
    /\ \A o1, o2 \in DOMAIN calls :
          (o1 # o2 /\ calls[o1].pc = "split" /\ calls[o2].pc = "split")
              => Range(calls[o1].ids) \cap Range(calls[o2].ids) = {}


(***************************************************************************)
(* policy.ts: validatePolicy with every check of a SponsorPolicy            *)
(***************************************************************************)
AddressDigits == 64               \* hex digits of a normalized address

\* toLowerCase on the characters of an address
Lower(c) ==
    CASE c = "A" -> "a" [] c = "B" -> "b" [] c = "C" -> "c" [] c = "D" -> "d"
      [] c = "E" -> "e" [] c = "F" -> "f" [] c = "X" -> "x" [] OTHER -> c

RECURSIVE padStart(_, _)
padStart(s, n) == IF Len(s) >= n THEN s ELSE padStart(<<"0">> \o s, n)

\* normalizeSuiAddress(value): lower case, without its 0x, padded with
\* zeros to 64 digits, behind 0x
normalizeSuiAddress(value) ==
    LET address == [i \in 1 .. Len(value) |-> Lower(value[i])]
        digits == IF Len(address) >= 2 /\ address[1] = "0" /\ address[2] = "x"
                  THEN SubSeq(address, 3, Len(address)) ELSE address
    IN  <<"0", "x">> \o padStart(digits, AddressDigits)

\* a MoveCall command as the codec returns it, and a target split at "::"
CallTo(package, module, function) ==
    [kind |-> "MoveCall", package |-> package, module |-> module,
     function |-> function, arguments |-> <<>>]

extractMoveTargetsFromCommands(commands) ==
    LET moveCalls == SelectSeq(commands, LAMBDA c : c.kind = "MoveCall")
    IN  [i \in 1 .. Len(moveCalls) |->
            <<moveCalls[i].package, moveCalls[i].module, moveCalls[i].function>>]

normalizeMoveTarget(target) ==
    IF Len(target) # 3 THEN target
    ELSE <<normalizeSuiAddress(target[1]), target[2], target[3]>>

SponsorPolicy(max, blocked, targets, validator) ==
    [maxBudgetPerTx |-> max, blockedAddresses |-> blocked,
     allowedMoveTargets |-> targets, customValidator |-> validator]

\* policy.blockedAddresses.some(addr => normalizeSuiAddress(addr) === normalizedSender)
isBlocked(policy, sender) ==
    /\ policy.blockedAddresses # Missing
    /\ \E i \in 1 .. Len(Val(policy.blockedAddresses)) :
          normalizeSuiAddress(Val(policy.blockedAddresses)[i]) = normalizeSuiAddress(sender)

\* the allowlist block is entered
hasAllowlist(policy) ==
    policy.allowedMoveTargets # Missing /\ Len(Val(policy.allowedMoveTargets)) > 0

\* (mutant) only the MoveCall targets are looked at
offAllowlistCallsOnly(policy, commands) ==
    LET allowed == Val(policy.allowedMoveTargets)
        normalizedAllowed == {normalizeMoveTarget(allowed[i]) : i \in 1 .. Len(allowed)}
        targets == extractMoveTargetsFromCommands(commands)
    IN  \E i \in 1 .. Len(targets) : targets[i] \notin normalizedAllowed

\* a Publish or Upgrade command, or a MoveCall target outside the list
offAllowlist(policy, commands) ==
    LET allowed == Val(policy.allowedMoveTargets)
        normalizedAllowed == {normalizeMoveTarget(allowed[i]) : i \in 1 .. Len(allowed)}
        targets == extractMoveTargetsFromCommands(commands)
    IN  \/ \E i \in 1 .. Len(commands) : commands[i].kind \in {"Publish", "Upgrade"}
        \/ \E i \in 1 .. Len(targets) : targets[i] \notin normalizedAllowed

\* what a call of policy.customValidator leaves behind
askValidator(policy) ==
    IF Val(policy.customValidator) = "throws"
    THEN [error |-> "Error", check |-> "customValidator", invoked |-> TRUE]
    ELSE IF Val(policy.customValidator) = "false"
    THEN [error |-> "POLICY_VIOLATION", check |-> "customValidator", invoked |-> TRUE]
    ELSE [error |-> "none", check |-> "none", invoked |-> TRUE]

Rejected(check) == [error |-> "POLICY_VIOLATION", check |-> check, invoked |-> FALSE]

\* (mutant) the blocklist is consulted before the budget cap
validatePolicyBlocklistFirst(policy, sender, kind, estimatedBudget) ==
    IF isBlocked(policy, sender) THEN Rejected("blocklist")
    ELSE IF policy.maxBudgetPerTx # Missing
            /\ estimatedBudget > Val(policy.maxBudgetPerTx)
    THEN Rejected("budget")
    ELSE IF hasAllowlist(policy) /\ ~kind.ok
    THEN [error |-> "Error", check |-> "allowlist", invoked |-> FALSE]
    ELSE IF hasAllowlist(policy) /\ offAllowlist(policy, kind.commands)
    THEN Rejected("allowlist")
    ELSE IF policy.customValidator # Missing THEN askValidator(policy)
    ELSE [error |-> "none", check |-> "none", invoked |-> FALSE]

\* validatePolicy(policy, sender, kindBytes, estimatedBudget): the error
\* thrown, the check that threw it, and whether customValidator was invoked
validatePolicyChecks(policy, sender, kind, estimatedBudget) ==
    IF policy.maxBudgetPerTx # Missing
       /\ estimatedBudget > Val(policy.maxBudgetPerTx)
    THEN Rejected("budget")
    ELSE IF isBlocked(policy, sender) THEN Rejected("blocklist")
    ELSE IF hasAllowlist(policy) /\ ~kind.ok
    THEN [error |-> "Error", check |-> "allowlist", invoked |-> FALSE]
    ELSE IF hasAllowlist(policy) /\ offAllowlist(policy, kind.commands)
    THEN Rejected("allowlist")
    ELSE IF policy.customValidator # Missing THEN askValidator(policy)
    ELSE [error |-> "none", check |-> "none", invoked |-> FALSE]

\* requests, drawn at the start: a sender in short form and another one;
\* a blocklist that spells the first sender with a leading zero;
\* allowlists with the package in short form, with two packages (one in
\* capitals), and with an entry that lacks its function; bodies that call
\* the listed function, call another package, call a listed and then an
\* unlisted function, hold no MoveCall, publish or upgrade a package, or
\* do not parse
PolicySenders == {<<"0", "x", "2">>, <<"0", "x", "a", "F">>}
BlockLists == {Missing, Some(<<>>), Some(<< <<"0", "x", "0", "2">> >>)}
TargetLists ==
    {Missing, Some(<<>>),
     Some(<< <<<<"0", "x", "2">>, "coin", "transfer">> >>),
     Some(<< <<<<"0", "x", "2">>, "coin", "transfer">>,
             <<<<"0", "x", "A", "F">>, "coin", "transfer">> >>),
     Some(<< <<<<"0", "x", "2">>, "coin">> >>)}
Validators == {Missing, Some("true"), Some("false"), Some("throws")}
PolicyBudgets == {0, targetCoinBalance, MaxBalance}

SponsorPolicies ==
    {SponsorPolicy(max, blocked, targets, validator) :
        max \in {Missing, Some(targetCoinBalance)}, blocked \in BlockLists,
        targets \in TargetLists, validator \in Validators}

PolicyKinds ==
    {KindBytes(<<CallTo(normalizeSuiAddress(<<"0", "x", "2">>), "coin", "transfer")>>),
     KindBytes(<<CallTo(normalizeSuiAddress(<<"0", "x", "a", "F">>), "coin", "transfer")>>),
     KindBytes(<<CallTo(normalizeSuiAddress(<<"0", "x", "2">>), "coin", "transfer"),
                 CallTo(normalizeSuiAddress(<<"0", "x", "2">>), "coin", "burn")>>),
     KindBytes(<<TransferObjects(<<Input>>, Input)>>),
     KindBytes(<<Publish>>),
     KindBytes(<<CallTo(normalizeSuiAddress(<<"0", "x", "2">>), "coin", "transfer"),
                 Upgrade(Input)>>),
     BadBytes}

InitPolicy ==
    /\ coins = <<>>
    /\ now = 0
    /\ reval = {}
    /\ \E policy \in SponsorPolicies, sender \in PolicySenders,
          kind \in PolicyKinds, estimatedBudget \in PolicyBudgets :
           last = [op |-> "request", policy |-> policy, sender |-> sender,
                   kind |-> kind, estimatedBudget |-> estimatedBudget,
                   out |-> Rejected("pending")]
    /\ outstanding = NoOutstanding
    /\ initialized = FALSE
    /\ tasks = NoTasks
    /\ gasPriceCache = Missing
    /\ needsRevalidation = FALSE
    /\ epochBoundaryWindow = DefaultWindow
    /\ calls = NoCalls
    /\ minted = {}
    /\ onPoolDepleted = Missing

\* the call of validatePolicy on the request: last keeps the arguments
\* and receives the outcome
ValidateStep ==
    /\ last.op = "request"
    /\ last' = [last EXCEPT !.op = "validatePolicy",
                            !.out = validatePolicyChecks(last.policy, last.sender,
                                        last.kind, last.estimatedBudget)]
    /\ UNCHANGED <<coins, now, reval, outstanding, initialized, tasks, admin>>

NextPolicy == ValidateStep

SpecPolicy == InitPolicy /\ [][NextPolicy]_vars

\* the checks of a request, each taken by itself
OverBudget(q) ==
    q.policy.maxBudgetPerTx # Missing
    /\ q.estimatedBudget > Val(q.policy.maxBudgetPerTx)

SenderBlocked(q) ==
    q.policy.blockedAddresses # Missing
    /\ normalizeSuiAddress(q.sender)
          \in {normalizeSuiAddress(a) : a \in Range(Val(q.policy.blockedAddresses))}

TargetsRefused(q) ==
    /\ q.policy.allowedMoveTargets # Missing
    /\ Val(q.policy.allowedMoveTargets) # <<>>
    /\ \/ ~q.kind.ok
       \/ \E c \in Range(q.kind.commands) :
             \/ c.kind \in {"Publish", "Upgrade"}
             \/ /\ c.kind = "MoveCall"
                /\ \A t \in Range(Val(q.policy.allowedMoveTargets)) :
                      normalizeMoveTarget(t) # <<c.package, c.module, c.function>>

ValidatorDenies(q) ==
    q.policy.customValidator # Missing /\ Val(q.policy.customValidator) # "true"

\* C30: validatePolicy reports the first check that fails in the order
\* budget cap, sender blocklist, target allowlist, custom validator; it
\* invokes the custom validator only when the three checks before it pass;
\* and a budget equal to maxBudgetPerTx passes the budget cap.
C30_ChecksInOrder ==
    last.op = "validatePolicy" =>
        /\ last.out.check =
              IF OverBudget(last) THEN "budget"
              ELSE IF SenderBlocked(last) THEN "blocklist"
              ELSE IF TargetsRefused(last) THEN "allowlist"
              ELSE IF ValidatorDenies(last) THEN "customValidator"
              ELSE "none"
        /\ last.out.invoked =
              (/\ last.policy.customValidator # Missing
               /\ ~OverBudget(last) /\ ~SenderBlocked(last) /\ ~TargetsRefused(last))
        /\ (last.out.error = "none") = (last.out.check = "none")
        /\ (/\ last.policy.maxBudgetPerTx # Missing
            /\ last.estimatedBudget = Val(last.policy.maxBudgetPerTx))
              => last.out.check # "budget"
        /\ (validatePolicy(last.policy, last.estimatedBudget) # "none")
              = (last.out.check = "budget")

\* a request over the cap from a blocked sender, with a body off the
\* allowlist and a validator that would reject: the budget cap is reported
\* and the validator has not been invoked
C30_Witness ==
    /\ last.op = "validatePolicy"
    /\ OverBudget(last) /\ SenderBlocked(last) /\ TargetsRefused(last)
    /\ ValidatorDenies(last)
    /\ last.out = Rejected("budget")


\* the target of a MoveCall command c is spelled by some allowlist entry
C31_Listed(q, c) ==
    \E t \in Range(Val(q.policy.allowedMoveTargets)) :
        /\ Len(t) = 3
        /\ normalizeSuiAddress(t[1]) = normalizeSuiAddress(c.package)
        /\ t[2] = c.module
        /\ t[3] = c.function

\* the request got as far as the allowlist check
C31_ReachedAllowlist(q) ==
    q.op = "validatePolicy" /\ q.out.check \notin {"budget", "blocklist"}

\* C31: under a non-empty allowedMoveTargets a body passes the allowlist
\* check exactly when it holds no Publish or Upgrade command and the
\* normalized package::module::function of each of its MoveCall commands is
\* in the normalized list (a body without MoveCall passes); under an empty
\* or absent allowedMoveTargets the check is skipped, a Publish or Upgrade
\* command included.
C31_AllowlistDecides ==
    C31_ReachedAllowlist(last) =>
        IF last.policy.allowedMoveTargets # Missing
           /\ Val(last.policy.allowedMoveTargets) # <<>>
        THEN (last.out.check # "allowlist") =
                (/\ last.kind.ok
                 /\ \A c \in Range(last.kind.commands) :
                       /\ c.kind \notin {"Publish", "Upgrade"}
                       /\ c.kind = "MoveCall" => C31_Listed(last, c))
        ELSE last.out.check # "allowlist"

\* a list that names two packages in short form, one in capitals, and a
\* body that calls the second one: accepted
C31_Witness ==
    /\ C31_ReachedAllowlist(last)
    /\ last.policy.allowedMoveTargets # Missing
    /\ Len(Val(last.policy.allowedMoveTargets)) = 2
    /\ last.kind.ok
    /\ \E c \in Range(last.kind.commands) :
          c.kind = "MoveCall" /\ c.package = normalizeSuiAddress(<<"0", "x", "a", "f">>)
    /\ last.policy.customValidator = Missing
    /\ last.out.error = "none"


(***************************************************************************)
(* sponsorTransaction under policies with every field of SponsorPolicy:    *)
(* the requests that are turned away before step 3                         *)
(***************************************************************************)
RequestPolicy(max, blocked, targets, validator, allow) ==
    [maxBudgetPerTx |-> max, blockedAddresses |-> blocked,
     allowedMoveTargets |-> targets, customValidator |-> validator,
     allowGasCoinUsage |-> allow]

\* no policy; one policy per check of validatePolicy; one that accepts
RejectPolicies ==
    {Missing,
     Some(RequestPolicy(Some(targetCoinBalance), Missing, Missing, Missing, Missing)),
     Some(RequestPolicy(Missing, Some(<< <<"0", "x", "0", "2">> >>), Missing, Missing, Missing)),
     Some(RequestPolicy(Missing, Missing,
                        Some(<< <<<<"0", "x", "2">>, "coin", "transfer">> >>),
                        Missing, Missing)),
     Some(RequestPolicy(Missing, Missing, Missing, Some("false"), Missing)),
     Some(RequestPolicy(Missing, Missing, Missing, Some("true"), Missing))}

RejectSenders == {<<"0", "x", "2">>, <<"0", "x", "a", "F">>, <<"0", "x", "g">>}
RejectBudgets == {Missing, Some(MaxBalance)}
RejectKinds ==
    {KindBytes(<<CallTo(normalizeSuiAddress(<<"0", "x", "2">>), "coin", "transfer")>>),
     KindBytes(<<Publish>>)}

\* a call with its sender; check and before are history: the check that
\* turned the request away, and the pool as the call found it, kept for as
\* long as no other caller changes the pool
CallTask(sender, m) ==
    [pc |-> "price", gasBudget |-> Missing, policy |-> Missing, kind |-> Missing,
     coin |-> Missing, error |-> "none", result |-> Missing,
     entry |-> Some(Counts(getStats(m))), swept |-> 0, notified |-> <<>>,
     sender |-> sender, check |-> "none", before |-> Some(m)]

\* throw new GasStationError(...) ahead of step 3
TurnedAway(task, code, check) == [Failed(task, code) EXCEPT !.check = check]

InitReject ==
    /\ initialized \in BOOLEAN
    /\ coins = (IF initialized
                THEN <<InitialEntry("A", targetCoinBalance),
                       InitialEntry("B", targetCoinBalance)>>
                ELSE <<>>)
    /\ now = 0
    /\ reval = {}
    /\ last = [op |-> "initialize", out |-> "ok"]
    /\ outstanding = NoOutstanding
    /\ tasks = NoTasks
    /\ gasPriceCache = (IF initialized THEN InitialCache ELSE Missing)
    /\ needsRevalidation = FALSE
    /\ epochBoundaryWindow = DefaultWindow
    /\ calls = NoCalls
    /\ minted = {}
    /\ onPoolDepleted = Some("callback")

\* the call up to await this.getGasPrice()
RejectStartStep(p, sender) ==
    /\ tasks[p].pc = "idle"
    /\ tasks' = [tasks EXCEPT ![p] =
                   IF ~initialized
                   THEN TurnedAway(CallTask(sender, coins), "POOL_NOT_INITIALIZED",
                                 "initialized")
                   ELSE IF ~SUI_ADDRESS_RE(sender)
                   THEN TurnedAway(CallTask(sender, coins), "POLICY_VIOLATION", "sender")
                   ELSE CallTask(sender, coins)]
    /\ UNCHANGED <<coins, now, reval, last, outstanding, initialized, admin>>

RejectStart == \E p \in Tasks, sender \in RejectSenders : RejectStartStep(p, sender)

\* (mutant) the coin is reserved before the policy is consulted
validateAfterReserve(m, task, verdict, t) ==
    [coins |-> reserve(m, task.gasBudget, t).coins,
     task |-> TurnedAway(task, verdict.error, verdict.check)]

\* step 2, await validatePolicy(...), when it throws: the error leaves
\* sponsorTransaction ahead of step 3
validateThrows(m, task, verdict, t) ==
    [coins |-> m, task |-> TurnedAway(task, verdict.error, verdict.check)]

\* getGasPrice has answered: step 2, and without a policy steps 3-6 as well
RejectPricedStep(p, fetched, gasBudget, policy, kind, thrown) ==
    LET task == [tasks[p] EXCEPT !.gasBudget = gasBudget,
                                 !.policy = policyInEffect(policy),
                                 !.kind = Some(kind)]
        estimatedBudget == IF gasBudget # Missing THEN Val(gasBudget) ELSE 0
        verdict == validatePolicyChecks(Val(task.policy), task.sender, kind,
                                        estimatedBudget)
        r == validateThrows(coins, task, verdict, now)
    IN  /\ tasks[p].pc = "price"
        /\ IF ~fetched
           THEN /\ tasks' = [tasks EXCEPT ![p] = Failed(tasks[p], "Error")]
                /\ UNCHANGED <<coins, now, reval, last, outstanding, initialized, admin>>
           ELSE IF task.policy = Missing
           THEN PrepareStep(p, task, kind, thrown)
           ELSE IF verdict.error # "none"
           THEN /\ coins' = r.coins
                /\ tasks' = [OthersDisturbed(p) EXCEPT ![p] = r.task]
                /\ UNCHANGED <<now, reval, last, outstanding, initialized, admin>>
           ELSE /\ tasks' = [tasks EXCEPT ![p] = [task EXCEPT !.pc = "validated"]]
                /\ UNCHANGED <<coins, now, reval, last, outstanding, initialized, admin>>

RejectPriced ==
    \E p \in Tasks, fetched \in BOOLEAN, gasBudget \in RejectBudgets,
       policy \in RejectPolicies, kind \in RejectKinds, thrown \in CallbackThrows :
        RejectPricedStep(p, fetched, gasBudget, policy, kind, thrown)

\* validatePolicy has resolved: steps 3-6 on the bytes of the request
RejectValidatedStep(p, thrown) ==
    /\ tasks[p].pc = "validated"
    /\ PrepareStep(p, tasks[p], Val(tasks[p].kind), thrown)

RejectValidated ==
    \E p \in Tasks, thrown \in CallbackThrows : RejectValidatedStep(p, thrown)

\* another caller's sponsorTransaction reserves a coin and holds on to it:
\* the calls in flight no longer have the pool to themselves
RejectOtherStep(minBalance) ==
    /\ initialized
    /\ coins' = reserve(coins, minBalance, now).coins
    /\ tasks' = [q \in DOMAIN tasks |->
                   IF tasks[q].pc \in {"price", "revalidate", "validated"}
                      /\ coins' # coins
                   THEN [tasks[q] EXCEPT !.entry = Missing, !.swept = 0,
                                         !.before = Missing]
                   ELSE OthersDisturbed("other")[q]]
    /\ UNCHANGED <<now, reval, last, outstanding, initialized, admin>>

RejectOther == \E minBalance \in RejectBudgets : RejectOtherStep(minBalance)

NextReject ==
    \/ Tick
    \/ RejectStart
    \/ PriceRevalidateStart
    \/ PriceRevalidateFinish
    \/ RejectPriced
    \/ RejectValidated
    \/ SponsorBuilt
    \/ SponsorSigned
    \/ SponsorReturn
    \/ RejectOther

SpecReject == InitReject /\ [][NextReject]_vars

\* the call of p ended ahead of step 3: not initialized, a malformed
\* sender, or one of the four checks of validatePolicy
RejectedAhead(task) ==
    /\ task.pc = "error"
    /\ task.check \in {"initialized", "sender", "budget", "blocklist", "allowlist",
                       "customValidator"}

TurnsAway(p) == tasks[p].pc \in {"idle", "price"} /\ RejectedAhead(tasks'[p])

\* C32 (as stated): a call that is rejected ahead of the reservation step
\* leaves every entry of the pool as the call found it, has reserved no
\* coin and has not invoked onPoolDepleted.
C32_RejectedLeavesPool ==
    [][\A p \in DOMAIN tasks :
          (TurnsAway(p) /\ tasks'[p].before # Missing) =>
              /\ coins' = Val(tasks'[p].before)
              /\ tasks'[p].coin = Missing
              /\ tasks'[p].notified = <<>>]_vars

\* C32 (amended): a call that is rejected ahead of the reservation step has
\* reserved no coin, swept none and has not invoked onPoolDepleted: the
\* rejecting step leaves the pool alone, the Reserved entries the call
\* found, expired ones included, are still there unchanged, and no other
\* entry is Reserved.  A call rejected for initialization or its sender has
\* not touched the pool at all; a call rejected by validatePolicy has been
\* through getGasPrice, which may have revalidated the Available entries.
C32_RejectedReservesNothing ==
    [][\A p \in DOMAIN tasks :
          (TurnsAway(p) /\ tasks'[p].before # Missing) =>
              LET found == Val(tasks'[p].before)
              IN  /\ coins' = coins
                  /\ tasks'[p].coin = Missing
                  /\ tasks'[p].notified = <<>>
                  /\ tasks'[p].check \in {"initialized", "sender"} => coins' = found
                  /\ \A e \in Range(found) :
                        e.status = "reserved" => e \in Range(coins')
                  /\ \A e \in Range(coins') :
                        e.status = "reserved" => e \in Range(found)]_vars

\* a call turned away by validatePolicy on a pool that held an expired
\* reservation when the call came and holds it still, after the call's
\* getGasPrice has revalidated the Available entries
C32_Witness ==
    \E p \in DOMAIN tasks :
        /\ RejectedAhead(tasks[p])
        /\ tasks[p].check \in {"budget", "blocklist", "allowlist", "customValidator"}
        /\ tasks[p].before # Missing
        /\ coins # Val(tasks[p].before)
        /\ \E e \in Range(coins) :
              /\ IsExpired(e, now)
              /\ e \in Range(Val(tasks[p].before))


(***************************************************************************)
(* The sweep inside reserve                                                *)
(***************************************************************************)
\* the entries of m whose reservation has run out at time t
ExpiredIn(m, t) == {e \in Range(m) : IsExpired(e, t)}

\* C33: reserve sweeps before it scans: each entry whose reservation has
\* expired at the time of the call is gone after it (total goes down by
\* one for each), the coin reserved is none of them, and no expired
\* Reserved entry is left in the pool.
C33_ReserveSweepsFirst ==
    [][\A minBalance \in {Missing, Some(1), Some(MaxBalance)} :
          ReserveStep(minBalance) =>
              /\ ExpiredIn(coins', now) = {}
              /\ \A e \in ExpiredIn(coins, now) : ~MapHas(coins', e.objectId)
              /\ Len(coins') = Len(coins) - Cardinality(ExpiredIn(coins, now))
              /\ \A e \in Range(coins') \ Range(coins) :
                    e.reservedAt = At(now) /\
                        \E f \in Range(coins) \ ExpiredIn(coins, now) :
                            f.objectId = e.objectId /\ f.status = "available"]_vars

\* a reserve past the timeout that took a coin and left the pool one short
C33_Witness ==
    /\ last = [op |-> "reserve", out |-> "coin"]
    /\ now > reservationTimeoutMs
    /\ Len(coins) = 1
    /\ coins[1].status = "reserved"
    /\ coins[1].reservedAt = At(now)


(***************************************************************************)
(* Revalidation that fails inside getGasPrice                              *)
(***************************************************************************)
\* C34: a revalidation that throws does not fail getGasPrice.  After an
\* epoch change the call ends with the new price cached and, if the
\* revalidation threw, with needsRevalidation set; a call that finds the
\* flag set retries the revalidation before it looks at the cache and goes
\* on whether the retry succeeds or not; the only error of a call is that
\* of getLatestSuiSystemState; and the flag is cleared only by a retry
\* that has succeeded.
C34_RevalidationNeverFails ==
    [][LET call == calls["getGasPrice"]
           next == calls'["getGasPrice"]
       IN  /\ (call.pc = "revalidate" /\ next # call) =>
                /\ next.pc = "done" /\ next.error = "none"
                /\ gasPriceCache' = gasPriceCache
                /\ PriceRevalidatedStep(FALSE, <<>>) => needsRevalidation'
                /\ needsRevalidation => needsRevalidation'
           /\ (call.pc = "idle" /\ next.pc # "idle" /\ needsRevalidation
                 /\ MapKeys(coins) # <<>>) =>
                /\ next.pc = "retry"
                /\ needsRevalidation'
           /\ (call.pc = "retry" /\ next # call) =>
                /\ next.pc \in {"done", "sleep"}
                /\ (\E skew \in ClockSkew : PriceRetriedStep(FALSE, <<>>, skew))
                      => needsRevalidation'
           /\ next.pc = "error" => call.pc \in {"refresh", "error"}
           /\ (needsRevalidation /\ ~needsRevalidation') =>
                \/ call.pc = "retry"
                \/ call.pc = "idle" /\ MapKeys(coins) = <<>>]_vars

\* the call has ended with the price of the new epoch, the pool is not
\* empty and the revalidation is still owed
C34_Witness ==
    /\ calls["getGasPrice"].pc = "done"
    /\ calls["getGasPrice"].error = "none"
    /\ Val(gasPriceCache).epoch = 2
    /\ coins # <<>>
    /\ needsRevalidation


(***************************************************************************)
(* getGasPrice with the whole cache entry: refreshGasPrice stamps it with  *)
(* fetchedAt: Date.now()                                                   *)
(***************************************************************************)
Fetched(state, t) ==
    [epoch |-> state.epoch, expiration |-> state.expiration, fetchedAt |-> t]

InitFetched ==
    /\ coins \in {<<>>, <<InitialEntry("A", targetCoinBalance)>>}
    /\ now = 0
    /\ reval = {}
    /\ last = [op |-> "initialize", out |-> "ok"]
    /\ outstanding = NoOutstanding
    /\ initialized = TRUE
    /\ tasks = NoTasks
    /\ gasPriceCache \in {Some(Fetched(CachedPrice(1, e), 0)) : e \in Expirations}
    /\ needsRevalidation = FALSE
    /\ epochBoundaryWindow \in Windows
    /\ calls = NoCalls
    /\ minted = {}
    /\ onPoolDepleted = Missing

\* getLatestSuiSystemState has answered, or failed
PriceFetchedStep(answered, state) ==
    LET call == calls["getGasPrice"]
        changed == gasPriceCache # Missing /\ Val(gasPriceCache).epoch # state.epoch
    IN  /\ call.pc = "refresh"
        /\ gasPriceCache' = IF answered THEN Some(Fetched(state, now))
                            ELSE gasPriceCache
        /\ calls' = [calls EXCEPT !["getGasPrice"] =
                       IF ~answered THEN Thrown(call, "Error")
                       ELSE IF changed /\ MapKeys(coins) # <<>>
                       THEN [call EXCEPT !.pc = "revalidate", !.ids = MapKeys(coins)]
                       ELSE [call EXCEPT !.pc = "done"]]
        /\ UNCHANGED <<coins, now, reval, last, outstanding, initialized, tasks,
                       needsRevalidation, minted, fixed>>

PriceFetched ==
    \E answered \in BOOLEAN, state \in EpochStates :
        PriceFetchedStep(answered, state)

NextFetched ==
    \/ PriceTick
    \/ PriceStart
    \/ PriceRetried
    \/ PriceWoken
    \/ PriceFetched
    \/ PriceRevalidated
    \/ PriceReturn

SpecFetched == InitFetched /\ [][NextFetched]_vars

\* C35: every cache entry stored has expiration > fetchedAt, the entry of
\* a refresh after the boundary wait included.
C35_ExpirationAfterFetch ==
    gasPriceCache # Missing =>
        Val(gasPriceCache).expiration > Val(gasPriceCache).fetchedAt


(***************************************************************************)
(* Status and timestamp of an entry                                        *)
(***************************************************************************)
\* C36: in every pool state an entry is Reserved exactly when its
\* reservedAt is set.
C36_ReservedIffStamped ==
    \A e \in Range(coins) : (e.status = "reserved") = (e.reservedAt # NoTime)

\* after a release: one coin is held with its timestamp, the other is
\* Available again without one
C36_Witness ==
    /\ last.op = "release"
    /\ \E e \in Range(coins) : e.status = "reserved" /\ e.reservedAt # NoTime
    /\ \E e \in Range(coins) : e.status = "available" /\ e.reservedAt = NoTime


(***************************************************************************)
(* initialize on listings longer than the pool, first and repeated, while  *)
(* callers go on asking for sponsorships                                   *)
(***************************************************************************)
MaxInitListed == 3                \* coins in one listing

\* right-sized coins, a coin large enough to split, dust
InitCoins ==
    {Listed("A", <<2>>), Listed("B", <<3>>), Listed("E", <<2>>),
     Listed("S", <<5>>), Listed("Z", <<1>>)}

InitListings ==
    {l \in UNION {[1 .. n -> InitCoins] : n \in 0 .. MaxInitListed} :
        \A i, j \in 1 .. Len(l) : i # j => l[i].coinObjectId # l[j].coinObjectId}

\* a GasSponsor fresh from its constructor, or one initialized earlier that
\* holds a reservation
InitInitialize ==
    /\ initialized \in BOOLEAN
    /\ coins = (IF initialized
                THEN <<[InitialEntry("A", targetCoinBalance) EXCEPT
                           !.status = "reserved", !.reservedAt = At(0)],
                       InitialEntry("B", targetCoinBalance)>>
                ELSE <<>>)
    /\ now = 0
    /\ reval = {}
    /\ last = [op |-> "constructor", out |-> "ok"]
    /\ outstanding = NoOutstanding
    /\ tasks = NoTasks
    /\ gasPriceCache = (IF initialized THEN InitialCache ELSE Missing)
    /\ needsRevalidation = FALSE
    /\ epochBoundaryWindow = DefaultWindow
    /\ calls = NoCalls
    /\ minted = {}
    /\ onPoolDepleted = Missing

InitializeListed ==
    \E fetched \in BOOLEAN, existingCoins \in InitListings :
        InitializeFetchedStep(fetched, existingCoins)

InitializeReturn == CallReturnStep("initialize")

NextInitialize ==
    \/ InitializeStart
    \/ InitializeListed
    \/ InitializeSplit
    \/ InitializeRefreshed
    \/ InitializeRevalidated
    \/ InitializeReturn
    \/ SponsorStart
    \/ SponsorReturn
    \/ SponsorReserve

SpecInitialize == InitInitialize /\ [][NextInitialize]_vars

\* the coins of a listing by class
UsableOf(l) == {i \in 1 .. Len(l) : isUsable(BigInt(l[i].balance))}
SourcesOf(l) == {i \in 1 .. Len(l) : isSource(BigInt(l[i].balance))}

\* what initialize has done once its listing l is in: the pool holds
\* usable coins of the listing only, Available, no dust, the first
\* targetPoolSize of them at most; a split is asked for only when the pool
\* is short and the listing holds a source coin
AdmittedFrom(l) ==
    /\ \A e \in Range(coins') :
          /\ e.status = "available" /\ e.reservedAt = NoTime
          /\ e.balance >= minCoinBalance
          /\ \E i \in UsableOf(l) :
                l[i].coinObjectId = e.objectId /\ BigInt(l[i].balance) = e.balance
    /\ Len(coins') = Min(targetPoolSize, Cardinality(UsableOf(l)))
    /\ (calls'["initialize"].pc = "split") =
          (Len(coins') < targetPoolSize /\ SourcesOf(l) # {})
    /\ calls'["initialize"].pc = "split" =>
          calls'["initialize"].count = targetPoolSize - Len(coins')
    /\ calls'["initialize"].pc \in {"split", "refresh"}

\* what the split of initialize has done: the entries it found are as they
\* were, the others are the created coins, Available
SplitAdded ==
    /\ \A i \in 1 .. Len(coins) : coins'[i] = coins[i]
    /\ \A i \in Len(coins) + 1 .. Len(coins') :
          /\ coins'[i].status = "available" /\ coins'[i].reservedAt = NoTime
          /\ coins'[i].balance = targetCoinBalance
          /\ coins'[i].objectId \in minted' \ minted
    /\ Len(coins') <= targetPoolSize

\* pool.initialize resolves in this step
InitializeResolves ==
    /\ calls["initialize"].pc \in {"fetch", "split"}
    /\ calls'["initialize"].pc = "refresh"

TopUpCoins ==
    {Listed("A", <<2>>), Listed("E", <<2>>), Listed("F", <<3>>), Listed("S", <<5>>)}

TopUpListings ==
    {l \in UNION {[1 .. n -> TopUpCoins] : n \in 0 .. MaxInitListed} :
        \A i, j \in 1 .. Len(l) : i # j => l[i].coinObjectId # l[j].coinObjectId}

\* a replenish call; total and added are history: the entries tracked when
\* the call started, and the usable coins the call has inserted
TopUpCall(m) ==
    [pc |-> "fetch", error |-> "none", count |-> 0, ids |-> <<>>,
     funded |-> FALSE, startKeys |-> KeySet(m), before |-> Some(m),
     wait |-> Missing, at |-> Missing, total |-> Len(m), added |-> 0]

InitTopUp ==
    /\ coins \in {<<>>, <<InitialEntry("A", targetCoinBalance)>>,
                  <<InitialEntry("A", targetCoinBalance),
                    InitialEntry("B", targetCoinBalance)>>}
    /\ now = 0
    /\ reval = {}
    /\ last = [op |-> "initialize", out |-> "ok"]
    /\ outstanding = NoOutstanding
    /\ initialized = TRUE
    /\ tasks = NoTasks
    /\ gasPriceCache = InitialCache
    /\ needsRevalidation = FALSE
    /\ epochBoundaryWindow = DefaultWindow
    /\ calls = NoCalls
    /\ minted = {}
    /\ onPoolDepleted = Missing

\* GasSponsor.replenish up to await fetchAllCoins
TopUpStart ==
    /\ calls["replenish"].pc = "idle"
    /\ calls' = [calls EXCEPT !["replenish"] =
                   IF requireInitialized(initialized) # "none"
                   THEN Thrown(IdleCall, requireInitialized(initialized))
                   ELSE TopUpCall(coins)]
    /\ UNCHANGED <<coins, now, reval, last, outstanding, initialized, tasks,
                   gasPriceCache, needsRevalidation, minted, fixed>>

\* getCoins has answered
TopUpListedStep(existingCoins) ==
    LET call == calls["replenish"]
        r == replenishFetched(coins, existingCoins)
    IN  /\ call.pc = "fetch"
        /\ coins' = r.coins
        /\ calls' = [calls EXCEPT !["replenish"] =
                       [call EXCEPT !.pc = IF r.count > 0 THEN "split" ELSE "done",
                                    !.count = r.count,
                                    !.added = Len(r.coins) - Len(coins)]]
        /\ UNCHANGED <<now, reval, last, outstanding, initialized, tasks,
                       gasPriceCache, needsRevalidation, minted, fixed>>

TopUpListed == \E existingCoins \in TopUpListings : TopUpListedStep(existingCoins)

TopUpSplit ==
    \E executed \in BOOLEAN :
        \E created \in CreatedSets(calls["replenish"].count) :
            SplitStep("replenish", executed, created, "done")

TopUpReturn == CallReturnStep("replenish")

\* a caller's sponsorTransaction reserves a coin, sweeping what has expired
TopUpReserve == OtherCallerStep(Missing)

NextTopUp ==
    \/ Tick
    \/ TopUpStart
    \/ TopUpListed
    \/ TopUpSplit
    \/ TopUpReturn
    \/ TopUpReserve

SpecTopUp == InitTopUp /\ [][NextTopUp]_vars

\* the steps of the call that insert entries
TopUpLists ==
    calls["replenish"].pc = "fetch" /\ calls'["replenish"].pc \in {"split", "done"}

TopUpSplits ==
    calls["replenish"].pc = "split" /\ calls'["replenish"].pc \in {"done", "error"}

\* C38 (as stated): a replenish call that started with t entries tracked
\* adds at most targetPoolSize - t entries, and with t >= targetPoolSize it
\* adds nothing and issues no split.
C38_AddsUpToStartTotal ==
    [][LET call == calls["replenish"]
           room == Max(0, targetPoolSize - call.total)
       IN  /\ TopUpLists =>
                /\ Len(coins') - Len(coins) <= room
                /\ call.total >= targetPoolSize =>
                      coins' = coins /\ calls'["replenish"].pc = "done"
           /\ TopUpSplits => call.added + (Len(coins') - Len(coins)) <= room]_vars

\* C38 (amended): a replenish call adds at most targetPoolSize - t entries,
\* t being the number of entries tracked when its listing arrives: usable
\* coins first, a split for the remainder only and only if some remains;
\* with t >= targetPoolSize it adds nothing and issues no split.  The pool
\* never tracks more than targetPoolSize entries.
C38_AddsUpToListingTotal ==
    [](Len(coins) <= targetPoolSize)
    /\ [][LET call == calls["replenish"]
              next == calls'["replenish"]
              room == Max(0, targetPoolSize - Len(coins))
          IN  /\ TopUpLists =>
                   /\ Len(coins') - Len(coins) <= room
                   /\ Len(coins) >= targetPoolSize =>
                         coins' = coins /\ next.pc = "done"
                   /\ next.pc = "split" =>
                         /\ next.count = targetPoolSize - Len(coins')
                         /\ next.count > 0
                   /\ \A l \in TopUpListings :
                         (TopUpListedStep(l) /\ next.pc = "split") =>
                             \A i \in UsableOf(l) :
                                 l[i].coinObjectId \in KeySet(coins')
              /\ TopUpSplits =>
                   /\ Len(coins') - Len(coins) <= call.count
                   /\ \A i \in 1 .. Len(coins) : coins'[i] = coins[i]]_vars

\* the call has come back having inserted one usable coin and one coin
\* from a split into a pool that tracked none when its listing arrived
C38_Witness ==
    /\ calls["replenish"].pc = "done"
    /\ calls["replenish"].added = 1
    /\ calls["replenish"].count = 1
    /\ Len(coins) = targetPoolSize
    /\ \E e \in Range(coins) : e.objectId \in minted


(***************************************************************************)
(* sponsorTransaction: the policy a request is held to                     *)
(***************************************************************************)
\* (mutant) the request's policy laid over the default, field by field
policyMerged(requested, default) ==
    IF requested = Missing THEN default
    ELSE IF default = Missing THEN requested
    ELSE Some([f \in DOMAIN Val(requested) |->
                  IF Val(requested)[f] # Missing THEN Val(requested)[f]
                  ELSE Val(default)[f]])

\* const policy = options.policy ?? this.defaultPolicy, for a sponsor
\* constructed with the policy default
policyOf(requested, default) ==
    IF requested # Missing THEN requested ELSE default

\* what sponsorTransaction does with the policy: the outcome of step 2, of
\* the drain check of step 4b, the budget of step 6 and the cap of step 7b
sponsorChecks(default, requested, sender, kind, gasBudget) ==
    LET policy == policyOf(requested, default)
    IN  [verdict |-> IF policy # Missing
                     THEN validatePolicyChecks(Val(policy), sender, kind,
                              IF gasBudget # Missing THEN Val(gasBudget) ELSE 0)
                     ELSE [error |-> "none", check |-> "none", invoked |-> FALSE],
         drain |-> IF kind.ok /\ drainCheckApplies(policy)
                   THEN assertNoGasCoinUsage(kind.commands) ELSE "none",
         budget |-> budgetToSet(gasBudget, policy),
         cap |-> maxBudgetOf(policy)]

\* no policy, the empty policy, and one policy per field
OverridePolicies ==
    {Missing,
     Some(RequestPolicy(Missing, Missing, Missing, Missing, Missing)),
     Some(RequestPolicy(Some(targetCoinBalance), Missing, Missing, Missing, Missing)),
     Some(RequestPolicy(Missing, Some(<< <<"0", "x", "0", "2">> >>), Missing, Missing, Missing)),
     Some(RequestPolicy(Missing, Missing,
                        Some(<< <<<<"0", "x", "2">>, "coin", "transfer">> >>),
                        Missing, Missing)),
     Some(RequestPolicy(Missing, Missing, Missing, Some("false"), Missing)),
     Some(RequestPolicy(Missing, Missing, Missing, Missing, Some(TRUE))),
     Some(RequestPolicy(Missing, Missing, Missing, Missing, Some(FALSE)))}

\* a listed call, an unlisted call, and a listed call that also hands the
\* gas coin to somebody
OverrideKinds ==
    {KindBytes(<<CallTo(normalizeSuiAddress(<<"0", "x", "2">>), "coin", "transfer")>>),
     KindBytes(<<CallTo(normalizeSuiAddress(<<"0", "x", "2">>), "coin", "burn")>>),
     KindBytes(<<CallTo(normalizeSuiAddress(<<"0", "x", "2">>), "coin", "transfer"),
                 TransferObjects(<<GasCoin>>, Input)>>)}

InitOverride ==
    /\ coins = <<>>
    /\ now = 0
    /\ reval = {}
    /\ \E default \in OverridePolicies, requested \in OverridePolicies,
          sender \in PolicySenders, kind \in OverrideKinds,
          gasBudget \in RejectBudgets :
           last = [op |-> "request", default |-> default, requested |-> requested,
                   sender |-> sender, kind |-> kind, gasBudget |-> gasBudget,
                   out |-> sponsorChecks(Missing, Missing, sender, KindBytes(<<>>), Missing)]
    /\ outstanding = NoOutstanding
    /\ initialized = FALSE
    /\ tasks = NoTasks
    /\ gasPriceCache = Missing
    /\ needsRevalidation = FALSE
    /\ epochBoundaryWindow = DefaultWindow
    /\ calls = NoCalls
    /\ minted = {}
    /\ onPoolDepleted = Missing

\* the request goes through the checks of sponsorTransaction
OverrideStep ==
    /\ last.op = "request"
    /\ last' = [last EXCEPT !.op = "sponsorChecks",
                            !.out = sponsorChecks(last.default, last.requested,
                                        last.sender, last.kind, last.gasBudget)]
    /\ UNCHANGED <<coins, now, reval, outstanding, initialized, tasks, admin>>

NextOverride == OverrideStep

SpecOverride == InitOverride /\ [][NextOverride]_vars

\* the request q held to the policy p alone
HeldTo(p, q) ==
    [policy |-> Val(p), sender |-> q.sender, kind |-> q.kind,
     estimatedBudget |-> IF q.gasBudget # Missing THEN Val(q.gasBudget) ELSE 0]

RulesRefuse(p, q) ==
    /\ p # Missing
    /\ \/ OverBudget(HeldTo(p, q))
       \/ SenderBlocked(HeldTo(p, q))
       \/ TargetsRefused(HeldTo(p, q))
       \/ ValidatorDenies(HeldTo(p, q))

GasCoinRefused(p, q) ==
    /\ ~(p # Missing /\ Val(p).allowGasCoinUsage = Some(TRUE))
    /\ \E c \in Range(q.kind.commands) :
          \E a \in Range(getCommandArguments(c)) : a.kind = "GasCoin"

\* the outcome o is what the rules of p, and of p alone, give for q
Enforces(o, p, q) ==
    /\ (o.verdict.error # "none") = RulesRefuse(p, q)
    /\ (o.drain # "none") = GasCoinRefused(p, q)
    /\ o.cap = (IF p # Missing THEN Val(p).maxBudgetPerTx ELSE Missing)
    /\ o.budget = (IF q.gasBudget # Missing THEN Val(q.gasBudget)
                   ELSE IF o.cap # Missing THEN Val(o.cap)
                   ELSE targetCoinBalance)

\* C39: a per-request policy replaces the constructor's default policy as
\* a whole: the request is held to the fields of the per-request policy
\* only (whatever the default is, the outcome is the same), and the rules
\* of the default policy are enforced exactly when the request brings no
\* policy.
C39_RequestPolicyReplacesDefault ==
    last.op = "sponsorChecks" =>
        /\ last.requested # Missing =>
              /\ Enforces(last.out, last.requested, last)
              /\ \A d \in OverridePolicies :
                    sponsorChecks(d, last.requested, last.sender, last.kind,
                                  last.gasBudget) = last.out
        /\ last.requested = Missing => Enforces(last.out, last.default, last)

\* a request over the default's cap that hands the gas coin on, with a
\* policy of its own that only allows gas coin usage: it passes
C39_Witness ==
    /\ last.op = "sponsorChecks"
    /\ last.default = Some(RequestPolicy(Some(targetCoinBalance), Missing, Missing,
                                         Missing, Missing))
    /\ last.requested = Some(RequestPolicy(Missing, Missing, Missing, Missing,
                                           Some(TRUE)))
    /\ last.gasBudget = Some(MaxBalance)
    /\ GasCoinRefused(last.default, last)
    /\ RulesRefuse(last.default, last)
    /\ last.out.verdict.error = "none"
    /\ last.out.drain = "none"
    /\ last.out.cap = Missing


\* C40: the pool never grows by itself: no step of reserve, release,
\* updateFromEffects, the sweep of expired reservations or revalidatePool
\* adds an entry or increases the total, so a total reduced by expiry or by
\* a low balance stays reduced for as long as neither initialize nor
\* replenish is called.
C40_NeverGrowsByItself ==
    [][/\ Len(coins') <= Len(coins)
       /\ KeySet(coins') \subseteq KeySet(coins)
       /\ \A id \in KeySet(coins') :
             MapIndex(coins', id) <= MapIndex(coins, id)]_vars

\* an expired reservation has just been swept and nothing is tracked any more
C40_Witness ==
    /\ last.op = "recycleExpired"
    /\ last.out = "swept"
    /\ coins = <<>>
    /\ now > reservationTimeoutMs

====
